---- MODULE Spec2Model ----
(***************************************************************************)
(* Model of ping-grafico: the batched SQLite store (netutils.py), the      *)
(* query service that reads it (api.py) and the rolling MOS window of the  *)
(* individual viewer (visorIndividual.py).                                 *)
(*                                                                         *)
(* SpecStore    : one BatchPingSaver on one connection.                    *)
(* SpecLector   : the saver and one get_pings reader.                      *)
(* SpecVisor    : VisorIndividual fed by the ping queue.                   *)
(* SpecHilo     : PingThread.run and the closing of the window.            *)
(* SpecArranque : grabar_ping and VisorIndividual started on one address.  *)
(* SpecApi      : the query service while one prober writes.               *)
(* SpecPaginas  : a client paging through get_pings on a quiet store.      *)
(* SpecMos      : calcular_mos on floats.                                  *)
(* SpecVentana  : the recomputation that the last result of a window sets  *)
(*                off.                                                     *)
(* SpecAnalisis : analizar_ip and the hacer_ping it calls.                 *)
(***************************************************************************)
EXTENDS Integers, Sequences, FiniteSets, TLC

\* ------------------------------------------------------------------ bounds
MaxBatch == 2       \* batch_size is drawn from 1..MaxBatch
MaxPings == 3       \* samples passed to agregar_ping in one run
MaxFallos == 1      \* store writes that raise in one run
MaxReloj == 2       \* wall clock, in half seconds
MaxLimit == 3       \* largest limit a reader asks for
MaxEntre == 1       \* writer steps that fall inside one get_pings request
MaxCola == 2        \* results waiting in ping_queue
MaxMuestras == 61   \* results processed since the last clear
MaxCambios == 1     \* times the produced result changes in one run
MaxTicks == 2       \* iterations PingThread.run starts in one run
MaxParadas == 2     \* times the window is asked to close in one run
MaxEnviados == 2    \* probes one prober sends in one run
MaxVariados == 5    \* results before the last of a window that are not fixed
MaxCantidad == 11   \* largest number of probes analizar_ip is asked for

\* -------------------------------------------------------------- constants
SIN_RESPUESTA == -1                 \* ping_unico: no reply
TiemposMs == {SIN_RESPUESTA, 20}    \* values of tiempo_ms fed to the store
None == "None"
Ninguno == <<>>                      \* None where a number may stand: <<x>> is x

\* ------------------------------------------------------------------ state
VARIABLES
    batch_size,     \* BatchPingSaver.batch_size
    buffer,         \* BatchPingSaver.buffer: <<timestamp, tiempo_ms>> tuples
    txn,            \* rows inserted on conn and not yet committed
    pings,          \* committed rows of table pings, in id order
    conn_abierta,   \* the sqlite3 connection of the saver is open
    pc,             \* position of the writer inside agregar_ping/flush/close
    llamada,        \* the call the writer is in, or the last one it left
    ultima,         \* outcome of the last finished call
    seguidos,       \* history: flush calls in a row that returned, up to 2
    reloj,          \* datetime.now(), in half seconds
    fallos,         \* number of writes that raised so far
    appended,       \* history: every sample passed to agregar_ping, in order
    flushed,        \* history: the batches of the flushes that committed
    rpc,            \* position of the reader inside get_pings
    consulta,       \* the reader's limit and offset
    filas,          \* rows fetched by get_pings' first SELECT
    resp,           \* the response get_pings returns
    visto,          \* history: flushed/appended/buffer when the rows were read
    entre,          \* writer steps taken since the request started
    \* VisorIndividual
    historial,                  \* self.historial: every processed result
    latencias_validas,          \* self.latencias_validas
    paquetes_enviados,          \* self.paquetes_enviados
    paquetes_recibidos,         \* self.paquetes_recibidos
    paquetes_perdidos,          \* self.paquetes_perdidos
    ventana_mos,                \* self.ventana_mos: deque(maxlen=VENTANA_MOS)
    mos_actual,                 \* self.mos_actual: <<>> is None, <<m>> a value
    r_factor_actual,            \* self.r_factor_actual
    latencia_efectiva_actual,   \* self.latencia_efectiva_actual
    calidad_actual,             \* self.calidad_actual
    label_mos,                  \* text shown by self.label_mos
    btn_pause,                  \* self.btn_pause.isChecked()
    ping_queue,                 \* self.ping_queue
    recalculo,                  \* history: the window at the last recomputation
    ultimo_ms,                  \* history: the last result the thread produced
    cambios,                    \* history: times the produced result changed
    \* PingThread of visorIndividual.py and the process it runs in
    running,        \* PingThread.running
    hilo,           \* position of the thread inside PingThread.run
    guardar_bd,     \* PingThread.guardar_bd
    conn,           \* PingThread.conn: None, "abierta" or "cerrada"
    bd,             \* rows guardar_ping committed on conn: <<time, tiempo_ms>>
    resultado_ms,   \* resultado_ms of the iteration in progress
    ts,             \* ts of the iteration in progress
    ahora,          \* time.time(), in milliseconds
    iteraciones,    \* history: one record per iteration the loop started
    paradas,        \* history: calls of PingThread.stop so far
    cerrada,        \* closeEvent has accepted the closing of the window
    proceso,        \* "vivo", or "terminado" once the interpreter has exited
    \* starting to monitor a target: grabar_ping and VisorIndividual
    direccion,      \* the ip argument, a sequence of characters
    almacen,        \* pings/<ip>/datos.db exists
    probers,        \* per prober: where it is, its connection, probes sent
    escritos,       \* datos.db: the prober that wrote each row, in order
    \* calcular_mos called on floats
    medida,         \* the arguments: latencia_promedio, jitter, perdida_paquetes
    puntuacion,     \* <<>>, or the tuple calcular_mos returned for medida
    previa,         \* <<>>, or the arguments and the tuple of the call before
    sondeo,         \* the locals of hacer_ping, its file and what it returned
    analisis        \* <<>>, or the dictionary analizar_ip returned

storeVars == <<batch_size, buffer, txn, pings, conn_abierta, pc, llamada,
               ultima, seguidos, reloj, fallos, appended, flushed>>
readerVars == <<rpc, consulta, filas, resp, visto>>
lectorVars == <<readerVars, entre>>
visorVars == <<historial, latencias_validas, paquetes_enviados, paquetes_recibidos,
               paquetes_perdidos, ventana_mos, mos_actual, r_factor_actual,
               latencia_efectiva_actual, calidad_actual, label_mos, btn_pause,
               ping_queue, recalculo, ultimo_ms, cambios>>
hiloVars == <<running, hilo, guardar_bd, conn, bd, resultado_ms, ts, ahora,
              iteraciones, paradas, cerrada, proceso>>
arranqueVars == <<direccion, almacen, probers, escritos>>
mosVars == <<medida, puntuacion, previa, sondeo, analisis>>

\* ---------------------------------------------------------------- helpers
Min(a, b) == IF a < b THEN a ELSE b
Max(a, b) == IF a > b THEN a ELSE b

\* datetime.now().strftime("%Y-%m-%d %H:%M:%S"): the clock cut to whole seconds
Timestamp(t) == t \div 2

Muestra(fila) == <<fila.timestamp, fila.tiempo_ms>>
RECURSIVE Muestras(_)
Muestras(tabla) ==
    IF tabla = <<>> THEN <<>> ELSE <<Muestra(Head(tabla))>> \o Muestras(Tail(tabla))

\* id INTEGER PRIMARY KEY AUTOINCREMENT: one more than the largest id in use
UltimoId(tabla, pendientes) ==
    IF Len(pendientes) > 0 THEN pendientes[Len(pendientes)].id
    ELSE IF Len(tabla) > 0 THEN tabla[Len(tabla)].id
    ELSE 0

\* cursor.executemany("INSERT INTO pings (timestamp, tiempo_ms) VALUES (?, ?)", m)
\* for the first k tuples of m, inside the connection's open transaction
RECURSIVE InsertRows(_, _, _, _)
InsertRows(tabla, pendientes, m, k) ==
    IF k = 0 THEN pendientes
    ELSE LET antes == InsertRows(tabla, pendientes, m, k - 1)
         IN  Append(antes, [id |-> UltimoId(tabla, antes) + 1,
                            timestamp |-> m[k][1], tiempo_ms |-> m[k][2]])

\* the first n elements of a sequence
Primeros(s, n) == SubSeq(s, 1, n)

IsPrefix(s, t) == Len(s) <= Len(t) /\ s = SubSeq(t, 1, Len(s))

\* ------------------------------------------------------------ BatchPingSaver
\* agregar_ping: "if len(self.buffer) >= self.batch_size"
ShouldFlush_gt(buf, size) == Len(buf) > size
ShouldFlush(buf, size) == Len(buf) >= size

\* flush: "self.buffer.clear()" after the commit
BufferCleared_keep(buf) == buf
BufferCleared(buf) == <<>>

\* a call returns or raises: the writer is back at its caller
Sale(op, ok) ==
    /\ pc' = "idle"
    /\ ultima' = [op |-> op, ok |-> ok]
    /\ seguidos' = IF op = "flush" /\ ok THEN Min(seguidos + 1, 2) ELSE 0

\* a step of the writer, while a reader may be inside a request
PasoEscritor ==
    /\ rpc = "idle" \/ entre < MaxEntre
    /\ entre' = IF rpc = "idle" THEN 0 ELSE entre + 1
    /\ UNCHANGED <<mosVars, arranqueVars, readerVars, visorVars, hiloVars>>

\* a call is entered from the caller
Entra(op) ==
    /\ PasoEscritor
    /\ pc = "idle"
    /\ llamada' = op

\* flush, up to its first write: "if not self.buffer: return"
FlushEntry(op, buf) ==
    IF buf = <<>> THEN Sale(op, TRUE)
    ELSE pc' = "executemany" /\ UNCHANGED <<ultima, seguidos>>

\* BatchPingSaver.agregar_ping(tiempo_ms), up to the flush it may trigger
AgregarPing(tiempo_ms) ==
    /\ Entra("agregar_ping")
    /\ Len(appended) < MaxPings
    /\ buffer' = Append(buffer, <<Timestamp(reloj), tiempo_ms>>)
    /\ appended' = Append(appended, <<Timestamp(reloj), tiempo_ms>>)
    /\ IF ShouldFlush(buffer', batch_size) THEN FlushEntry("agregar_ping", buffer')
       ELSE Sale("agregar_ping", TRUE)
    /\ UNCHANGED <<batch_size, txn, pings, conn_abierta, reloj, fallos, flushed>>

\* BatchPingSaver.flush(), called by the owner (shutdown, periodic timer)
Flush ==
    /\ Entra("flush")
    /\ FlushEntry("flush", buffer)
    /\ UNCHANGED <<batch_size, buffer, txn, pings, conn_abierta, reloj, fallos,
                   appended, flushed>>

\* BatchPingSaver.close(): "self.flush()" and nothing else
Close ==
    /\ Entra("close")
    /\ FlushEntry("close", buffer)
    /\ UNCHANGED <<batch_size, buffer, txn, pings, conn_abierta, reloj, fallos,
                   appended, flushed>>

\* flush: cursor.executemany(...) inserts the whole buffer in the open transaction
Executemany ==
    /\ PasoEscritor
    /\ pc = "executemany"
    /\ txn' = InsertRows(pings, txn, buffer, Len(buffer))
    /\ pc' = "commit"
    /\ UNCHANGED <<batch_size, buffer, pings, conn_abierta, llamada, ultima,
                   seguidos, reloj, fallos, appended, flushed>>

\* flush: cursor.executemany(...) raises at row k+1. Nothing catches it and nothing
\* rolls back: the k rows stay in the open transaction, unless SQLite itself
\* rolled the transaction back (it may, on SQLITE_FULL, SQLITE_IOERR, ...).
ExecutemanyFalla ==
    /\ PasoEscritor
    /\ pc = "executemany"
    /\ fallos < MaxFallos
    /\ \E k \in 0..(Len(buffer) - 1), conserva \in BOOLEAN :
          txn' = IF conserva THEN InsertRows(pings, txn, buffer, k) ELSE <<>>
    /\ fallos' = fallos + 1
    /\ Sale(llamada, FALSE)
    /\ UNCHANGED <<batch_size, buffer, pings, conn_abierta, llamada, reloj,
                   appended, flushed>>

\* flush: self.conn.commit() makes every row of the open transaction durable and
\* visible to the other connections, in one step
Commit ==
    /\ PasoEscritor
    /\ pc = "commit"
    /\ pings' = pings \o txn
    /\ txn' = <<>>
    /\ flushed' = flushed \o buffer
    /\ pc' = "clear"
    /\ UNCHANGED <<batch_size, buffer, conn_abierta, llamada, ultima,
                   seguidos, reloj, fallos, appended>>

\* flush: self.conn.commit() raises; the transaction stays open or is rolled back
CommitFalla ==
    /\ PasoEscritor
    /\ pc = "commit"
    /\ fallos < MaxFallos
    /\ \E conserva \in BOOLEAN : txn' = IF conserva THEN txn ELSE <<>>
    /\ fallos' = fallos + 1
    /\ Sale(llamada, FALSE)
    /\ UNCHANGED <<batch_size, buffer, pings, conn_abierta, llamada, reloj,
                   appended, flushed>>

\* flush: self.buffer.clear(), then flush and its caller return
BufferClear ==
    /\ PasoEscritor
    /\ pc = "clear"
    /\ buffer' = BufferCleared(buffer)
    /\ Sale(llamada, TRUE)
    /\ UNCHANGED <<batch_size, txn, pings, conn_abierta, llamada, reloj,
                   fallos, appended, flushed>>

\* the wall clock advances
Tick ==
    /\ PasoEscritor
    /\ reloj < MaxReloj
    /\ reloj' = reloj + 1
    /\ UNCHANGED <<batch_size, buffer, txn, pings, conn_abierta, pc, llamada, ultima,
                   seguidos, fallos, appended, flushed>>

\* -------------------------------------------------------------- api.get_pings
\* "ORDER BY timestamp DESC": a goes before b. Rows of one timestamp come in an
\* order SQL leaves open: by id downwards (backward scan of idx_timestamp) or
\* by id upwards (table scan and stable sort).
Antecede(a, b, empates) ==
    \/ a.timestamp > b.timestamp
    \/ a.timestamp = b.timestamp /\ (IF empates = "asc" THEN a.id < b.id ELSE a.id > b.id)

\* the rows of a set, in the order a relation puts them
RECURSIVE EnOrden(_, _, _)
EnOrden(filasSet, antecede(_, _, _), empates) ==
    IF filasSet = {} THEN <<>>
    ELSE LET primera == CHOOSE f \in filasSet :
                            \A g \in filasSet \ {f} : antecede(f, g, empates)
         IN  <<primera>> \o EnOrden(filasSet \ {primera}, antecede, empates)

Filas(tabla) == {tabla[i] : i \in 1..Len(tabla)}

OrderByTimestampDesc(filasSet, empates) == EnOrden(filasSet, Antecede, empates)

\* "LIMIT ? OFFSET ?"
LimitOffset(s, limit, offset) == SubSeq(s, offset + 1, Min(Len(s), offset + limit))

\* rows put back in id order
PorIdAntes(a, b, e) == a.id < b.id
PorId(s) == EnOrden(Filas(s), PorIdAntes, None)

\* the optional filters of a request: Ninguno where the parameter is not given
SinFiltros == [from_date |-> Ninguno, to_date |-> Ninguno, min_latency |-> Ninguno,
               max_latency |-> Ninguno, only_failures |-> FALSE]

\* the WHERE clause get_pings and get_stats build from the filters
Coincide_sinHasta(fila, f) ==
    /\ f.from_date = Ninguno \/ fila.timestamp >= f.from_date[1]
    /\ f.min_latency = Ninguno \/ fila.tiempo_ms >= f.min_latency[1]
    /\ f.max_latency = Ninguno \/ fila.tiempo_ms <= f.max_latency[1]
    /\ f.only_failures => fila.tiempo_ms = SIN_RESPUESTA
Coincide(fila, f) ==
    /\ f.from_date = Ninguno \/ fila.timestamp >= f.from_date[1]
    /\ f.to_date = Ninguno \/ fila.timestamp <= f.to_date[1]
    /\ f.min_latency = Ninguno \/ fila.tiempo_ms >= f.min_latency[1]
    /\ f.max_latency = Ninguno \/ fila.tiempo_ms <= f.max_latency[1]
    /\ f.only_failures => fila.tiempo_ms = SIN_RESPUESTA

Coinciden(tabla, f) == {fila \in Filas(tabla) : Coincide(fila, f)}

\* the reader's variables while it is in no request
SinConsulta == [op |-> None, limit |-> 0, offset |-> 0, filtros |-> SinFiltros,
                minutes |-> 0]
SinResp == [op |-> None, status |-> 0, total_results |-> 0, returned |-> 0,
            offset |-> 0, limit |-> 0, pings |-> <<>>, quieto |-> FALSE,
            stats |-> Ninguno, ips |-> <<>>]
SinVisto == [flushed |-> <<>>, appended |-> <<>>, buffer |-> <<>>,
             huella |-> <<"idle", 0, 0, 0, 0>>]

\* what the writer has done, as far as a reader can tell one moment from another
Huella == <<pc, Len(pings), Len(buffer), Len(appended), fallos>>

\* get_db_connection: "if not db_path.exists(): raise HTTPException(404)"
SinBaseDeDatos_nunca(existe) == FALSE
SinBaseDeDatos(existe) == ~existe

\* a request starts: its parameters, and what the writer had done by then
Pide_crea(c) ==
    /\ rpc = "idle"
    /\ consulta' = c
    /\ visto' = [flushed |-> flushed, appended |-> appended, buffer |-> buffer,
                 huella |-> Huella]
    /\ entre' = 0
    /\ almacen' = TRUE
    /\ UNCHANGED <<mosVars, direccion, probers, escritos, storeVars, visorVars, hiloVars>>
Pide(c) ==
    /\ rpc = "idle"
    /\ consulta' = c
    /\ visto' = [flushed |-> flushed, appended |-> appended, buffer |-> buffer,
                 huella |-> Huella]
    /\ entre' = 0
    /\ UNCHANGED <<mosVars, arranqueVars, storeVars, visorVars, hiloVars>>

\* HTTPException(status_code=404) leaves the handler: that is the response
NoEncontrada(op) ==
    /\ resp' = [SinResp EXCEPT !.op = op, !.status = 404]
    /\ filas' = <<>>
    /\ rpc' = "done"

\* get_pings(ip, limit, offset, filters): get_db_connection, then
\* cursor.execute(query, params); fetchall() on the reader's own read-only
\* connection: it sees the committed rows only
GetPingsSelect(limit, offset, filtros) ==
    /\ Pide([SinConsulta EXCEPT !.op = "get_pings", !.limit = limit,
                                !.offset = offset, !.filtros = filtros])
    /\ IF SinBaseDeDatos(almacen) THEN NoEncontrada("get_pings")
       ELSE /\ \E empates \in {"asc", "desc"} :
                  filas' = LimitOffset(OrderByTimestampDesc(Coinciden(pings, filtros),
                                                            empates), limit, offset)
            /\ rpc' = "count"
            /\ UNCHANGED resp

\* get_pings: the second statement, SELECT COUNT(*), and the returned dictionary
GetPingsCount ==
    /\ rpc = "count"
    /\ resp' = [SinResp EXCEPT !.op = "get_pings", !.status = 200,
                               !.total_results =
                                   Cardinality(Coinciden(pings, consulta.filtros)),
                               !.returned = Len(filas),
                               !.offset = consulta.offset, !.limit = consulta.limit,
                               !.pings = filas, !.quieto = (visto.huella = Huella)]
    /\ rpc' = "done"
    /\ UNCHANGED <<mosVars, arranqueVars, storeVars, visorVars, hiloVars, consulta, filas, visto, entre>>

\* the client that got a full page asks get_pings for the one after it, same
\* filters and limit, while it still holds the page it got
GetPingsSiguiente ==
    /\ rpc = "done"
    /\ resp.op = "get_pings" /\ resp.status = 200
    /\ resp.returned = resp.limit
    /\ consulta' = [consulta EXCEPT !.offset = @ + consulta.limit]
    /\ visto' = [flushed |-> flushed, appended |-> appended, buffer |-> buffer,
                 huella |-> Huella]
    /\ entre' = 0
    /\ \E empates \in {"asc", "desc"} :
          filas' = LimitOffset(OrderByTimestampDesc(Coinciden(pings, consulta.filtros),
                                                    empates),
                               consulta.limit, consulta.offset + consulta.limit)
    /\ rpc' = "count"
    /\ UNCHANGED <<resp, mosVars, arranqueVars, storeVars, visorVars, hiloVars>>

\* the response has been sent; the next request may come
GetPingsReturn ==
    /\ rpc = "done"
    /\ rpc' = "idle"
    /\ resp' = SinResp
    /\ filas' = <<>>
    /\ consulta' = SinConsulta
    /\ visto' = SinVisto
    /\ entre' = 0
    /\ UNCHANGED <<mosVars, arranqueVars, storeVars, visorVars, hiloVars>>

\* ------------------------------------------------- Python float arithmetic
\* A Python float is an IEEE 754 double: 0, or a mantissa m of MANTISA bits,
\* most significant first and starting with 1, whose last bit weighs 2^e.
\* Every operation gives the double nearest to the exact result, ties to the
\* even mantissa. Only the operations the viewer applies to the loss count are
\* defined: int / int and float * int. Long numbers are handled in limbs of
\* LIMBO bits, so that no intermediate value leaves 32 bits.
MANTISA == 53
LIMBO == 20
Base == 2 ^ LIMBO
Cero == [m |-> <<>>, e |-> 0]

RECURSIVE Bits(_)
Bits(n) == IF n = 0 THEN <<>> ELSE Append(Bits(n \div 2), n % 2)

RECURSIVE Valor(_)
Valor(bits) ==
    IF bits = <<>> THEN 0
    ELSE 2 * Valor(SubSeq(bits, 1, Len(bits) - 1)) + bits[Len(bits)]

RECURSIVE Ceros(_)
Ceros(n) ==
    IF n <= 0 THEN <<>>
    ELSE IF n = 1 THEN <<0>>
    ELSE Ceros(n \div 2) \o Ceros(n - (n \div 2))

\* the LIMBO bits of a limb
Limbo(x) == Ceros(LIMBO - Len(Bits(x))) \o Bits(x)

\* a bit sequence without its leading zeros
SinCerosIniciales(bits) ==
    IF \A i \in 1..Len(bits) : bits[i] = 0 THEN <<>>
    ELSE LET p == CHOOSE i \in 1..Len(bits) :
                      bits[i] = 1 /\ \A j \in 1..(i - 1) : bits[j] = 0
         IN  SubSeq(bits, p, Len(bits))

\* bits + 1
Incremento(bits) ==
    IF \A i \in 1..Len(bits) : bits[i] = 1 THEN <<1>> \o Ceros(Len(bits))
    ELSE LET z == CHOOSE i \in 1..Len(bits) :
                      bits[i] = 0 /\ \A j \in (i + 1)..Len(bits) : bits[j] = 1
         IN  SubSeq(bits, 1, z - 1) \o <<1>> \o Ceros(Len(bits) - z)

\* the double nearest to Valor(p) * 2^e for a p of at least MANTISA bits that
\* starts with 1; resto says the exact value is a little above Valor(p) * 2^e
Redondear(p, e, resto) ==
    LET sobra == Len(p) - MANTISA
        alto == SubSeq(p, 1, MANTISA)
        bajo == SubSeq(p, MANTISA + 1, Len(p))
        sube == /\ sobra > 0
                /\ bajo[1] = 1
                /\ \/ alto[MANTISA] = 1
                   \/ resto
                   \/ \E i \in 2..sobra : bajo[i] = 1
        m2 == IF sube THEN Incremento(alto) ELSE alto
    IN  IF Len(m2) > MANTISA
        THEN [m |-> SubSeq(m2, 1, MANTISA), e |-> e + sobra + 1]
        ELSE [m |-> m2, e |-> e + sobra]

\* k / d for ints 0 <= k < 2^20 and 0 < d < 2^11: long division of k * 2^80
DobleDiv(k, d) ==
    IF k = 0 THEN Cero
    ELSE LET q0 == k \div d
             r0 == k % d
             q1 == (r0 * Base) \div d
             r1 == (r0 * Base) % d
             q2 == (r1 * Base) \div d
             r2 == (r1 * Base) % d
             q3 == (r2 * Base) \div d
             r3 == (r2 * Base) % d
             q4 == (r3 * Base) \div d
             r4 == (r3 * Base) % d
             q == Bits(q0) \o Limbo(q1) \o Limbo(q2) \o Limbo(q3) \o Limbo(q4)
         IN  Redondear(SinCerosIniciales(q), -(4 * LIMBO), r4 # 0)

\* the bits of m * c for the mantissa m of a double x > 0 and an int
\* 0 < c < 2^11: the exact product is their value times 2^x.e
ProductoExacto(x, c) ==
    LET lo == Valor(SubSeq(x.m, MANTISA - LIMBO + 1, MANTISA))
        mid == Valor(SubSeq(x.m, MANTISA - (2 * LIMBO) + 1, MANTISA - LIMBO))
        hi == Valor(SubSeq(x.m, 1, MANTISA - (2 * LIMBO)))
        p0 == lo * c
        p1 == (mid * c) + (p0 \div Base)
        p2 == (hi * c) + (p1 \div Base)
    IN  Bits(p2) \o Limbo(p1 % Base) \o Limbo(p0 % Base)

\* x * c for a double x >= 0 and an int 0 < c < 2^11
DobleMul(x, c) ==
    IF x = Cero THEN Cero ELSE Redondear(ProductoExacto(x, c), x.e, FALSE)

\* float(n) for an int 0 <= n < 2^31
DobleDeEntero(n) ==
    IF n = 0 THEN Cero
    ELSE [m |-> Bits(n) \o Ceros(MANTISA - Len(Bits(n))),
          e |-> Len(Bits(n)) - MANTISA]

\* round(x) for a double 0 <= x < 2^20, as the fixed point below takes it
EnteroMasCercano(x) ==
    IF x = Cero \/ MANTISA + x.e < 0 THEN 0
    ELSE IF x.e >= 0 THEN Valor(x.m \o Ceros(x.e))
    ELSE Valor(SubSeq(x.m, 1, MANTISA + x.e)) + x.m[MANTISA + x.e + 1]

\* int(x) for a double 0 <= x < 2^20
ParteEntera(x) ==
    IF x = Cero \/ MANTISA + x.e <= 0 THEN 0
    ELSE IF x.e >= 0 THEN Valor(x.m \o Ceros(x.e))
    ELSE Valor(SubSeq(x.m, 1, MANTISA + x.e))

\* round(x, 2) for a double 0 <= x < 2^20, in hundredths: the integer nearest
\* to the exact x * 100, a tie going to the even one
Centesimas(x) ==
    IF x = Cero THEN 0
    ELSE LET p == ProductoExacto(x, 100)
             k == -x.e
             l == Len(p)
         IN  IF k <= 0 THEN Valor(p \o Ceros(-k))
             ELSE IF k > l THEN 0
             ELSE LET entero == Valor(SubSeq(p, 1, l - k))
                      resto == \E i \in (l - k + 2)..l : p[i] = 1
                      sube == p[l - k + 1] = 1 /\ (resto \/ entero % 2 = 1)
                  IN  IF sube THEN entero + 1 ELSE entero

\* --------------------------------------- float arithmetic of calcular_mos
\* calcular_mos adds, subtracts, multiplies and divides floats of either sign.
\* A signed float is [neg, abs] with abs a double as above; a zero is never
\* negative. Each operation is computed exactly on the bits and rounded once.
MEDIO == 14
BaseMedia == 2 ^ MEDIO

\* the one element of a set that has one. An operation below takes the value
\* of each operand once, as the element of the set that holds it alone.
Unico(S) == CHOOSE v \in S : TRUE

\* the k bits of x < 2^k
BitsAncho(x, k) == Ceros(k - Len(Bits(x))) \o Bits(x)

\* the double whose mantissa has the limbs hi (13 bits), mid and lo
Doble(hi, mid, lo, e) ==
    [m |-> BitsAncho(hi, MANTISA - (2 * LIMBO)) \o Limbo(mid) \o Limbo(lo), e |-> e]

\* a < b for bit sequences of one length
MenorBits(a, b) ==
    \E i \in 1..Len(a) : a[i] < b[i] /\ \A j \in 1..(i - 1) : a[j] = b[j]

\* x < y for doubles x, y >= 0
MenorAbs(x, y) ==
    IF y = Cero THEN FALSE
    ELSE IF x = Cero THEN TRUE
    ELSE IF x.e # y.e THEN x.e < y.e
    ELSE MenorBits(x.m, y.m)

\* a + b + c for bit sequences of one length and a carry c, limb by limb
RECURSIVE SumaBits(_, _, _)
SumaBits(a, b, c) ==
    IF a = <<>> THEN Bits(c)
    ELSE LET n == Len(a)
             k == Min(n, LIMBO)
             t == Valor(SubSeq(a, n - k + 1, n)) + Valor(SubSeq(b, n - k + 1, n)) + c
         IN  SumaBits(SubSeq(a, 1, n - k), SubSeq(b, 1, n - k), t \div (2 ^ k))
                 \o BitsAncho(t % (2 ^ k), k)

\* a - b - c for bit sequences of one length with a >= b + c, limb by limb
RECURSIVE RestaBits(_, _, _)
RestaBits(a, b, c) ==
    IF a = <<>> THEN <<>>
    ELSE LET n == Len(a)
             k == Min(n, LIMBO)
             t == Valor(SubSeq(a, n - k + 1, n)) - Valor(SubSeq(b, n - k + 1, n)) - c
         IN  RestaBits(SubSeq(a, 1, n - k), SubSeq(b, 1, n - k), IF t < 0 THEN 1 ELSE 0)
                 \o BitsAncho(IF t < 0 THEN t + (2 ^ k) ELSE t, k)

\* the bits of x and of y at the smaller of their exponents, at one length
Alineados(x, y) ==
    LET e == Min(x.e, y.e)
        a == x.m \o Ceros(x.e - e)
        b == y.m \o Ceros(y.e - e)
        n == Max(Len(a), Len(b))
    IN  [a |-> Ceros(n - Len(a)) \o a, b |-> Ceros(n - Len(b)) \o b, e |-> e]

\* x + y for doubles x, y >= 0
SumaAbs(x, y) ==
    IF x = Cero THEN y
    ELSE IF y = Cero THEN x
    ELSE Unico({Unico({Redondear(p, al.e, FALSE) : p \in {SumaBits(al.a, al.b, 0)}}) :
                   al \in {Alineados(x, y)}})

\* x - y for doubles x >= y >= 0
RestaAbs(x, y) ==
    IF y = Cero THEN x
    ELSE Unico({Unico({IF p = <<>> THEN Cero
                       ELSE Unico({Redondear(q, al.e - (Len(q) - Len(p)), FALSE) :
                                      q \in {p \o Ceros(MANTISA - Len(p))}}) :
                          p \in {SinCerosIniciales(RestaBits(al.a, al.b, 0))}}) :
                   al \in {Alineados(x, y)}})

\* x * y for doubles x, y >= 0: the product of the mantissas in limbs of MEDIO
\* bits, column by column
MulAbs(x, y) ==
    IF x = Cero \/ y = Cero THEN Cero
    ELSE LET ancho == 4 * MEDIO
             xm == Ceros(ancho - MANTISA) \o x.m
             ym == Ceros(ancho - MANTISA) \o y.m
             a == [i \in 1..4 |-> Valor(SubSeq(xm, (MEDIO * (i - 1)) + 1, MEDIO * i))]
             b == [i \in 1..4 |-> Valor(SubSeq(ym, (MEDIO * (i - 1)) + 1, MEDIO * i))]
             t0 == a[4] * b[4]
             t1 == (a[3] * b[4]) + (a[4] * b[3]) + (t0 \div BaseMedia)
             t2 == (a[2] * b[4]) + (a[3] * b[3]) + (a[4] * b[2]) + (t1 \div BaseMedia)
             t3 == (a[1] * b[4]) + (a[2] * b[3]) + (a[3] * b[2]) + (a[4] * b[1])
                       + (t2 \div BaseMedia)
             t4 == (a[1] * b[3]) + (a[2] * b[2]) + (a[3] * b[1]) + (t3 \div BaseMedia)
             t5 == (a[1] * b[2]) + (a[2] * b[1]) + (t4 \div BaseMedia)
             t6 == (a[1] * b[1]) + (t5 \div BaseMedia)
         IN  Unico({Redondear(p, x.e + y.e, FALSE) :
                       p \in {Bits(t6) \o BitsAncho(t5 % BaseMedia, MEDIO)
                                       \o BitsAncho(t4 % BaseMedia, MEDIO)
                                       \o BitsAncho(t3 % BaseMedia, MEDIO)
                                       \o BitsAncho(t2 % BaseMedia, MEDIO)
                                       \o BitsAncho(t1 % BaseMedia, MEDIO)
                                       \o BitsAncho(t0 % BaseMedia, MEDIO)}})

\* x / c for a double x >= 0 and an int 0 < c < 2^11: long division of the
\* mantissa followed by three limbs of zeros
DivAbs(x, c) ==
    IF x = Cero THEN Cero
    ELSE LET hi == Valor(SubSeq(x.m, 1, MANTISA - (2 * LIMBO)))
             mid == Valor(SubSeq(x.m, MANTISA - (2 * LIMBO) + 1, MANTISA - LIMBO))
             lo == Valor(SubSeq(x.m, MANTISA - LIMBO + 1, MANTISA))
             r0 == hi % c
             n1 == (r0 * Base) + mid
             n2 == ((n1 % c) * Base) + lo
             n3 == (n2 % c) * Base
             n4 == (n3 % c) * Base
             n5 == (n4 % c) * Base
         IN  Unico({Redondear(q, x.e - (3 * LIMBO), n5 % c # 0) :
                       q \in {SinCerosIniciales(
                                 Bits(hi \div c) \o Limbo(n1 \div c) \o Limbo(n2 \div c)
                                     \o Limbo(n3 \div c) \o Limbo(n4 \div c)
                                     \o Limbo(n5 \div c))}})

Con(neg, x) == [neg |-> neg /\ x # Cero, abs |-> x]
Positivo(x) == Con(FALSE, x)
Flotante(n) == Con(n < 0, DobleDeEntero(IF n < 0 THEN -n ELSE n))

\* a + b, a - b, a * b, a / c and a < b for signed floats
Suma(a, b) ==
    Unico({Unico({Con(r.neg, r.abs) :
                     r \in {IF x.neg = y.neg
                            THEN [neg |-> x.neg, abs |-> SumaAbs(x.abs, y.abs)]
                            ELSE IF MenorAbs(x.abs, y.abs)
                            THEN [neg |-> y.neg, abs |-> RestaAbs(y.abs, x.abs)]
                            ELSE [neg |-> x.neg, abs |-> RestaAbs(x.abs, y.abs)]}}) :
              x \in {a}, y \in {b}})
Resta(a, b) == Unico({Suma(a, [neg |-> ~y.neg /\ y.abs # Cero, abs |-> y.abs]) : y \in {b}})
Producto(a, b) ==
    Unico({Unico({Con(x.neg # y.neg, r) : r \in {MulAbs(x.abs, y.abs)}}) :
              x \in {a}, y \in {b}})
Cociente(a, c) == Unico({Unico({Con(x.neg, r) : r \in {DivAbs(x.abs, c)}}) : x \in {a}})
Menor(a, b) ==
    Unico({IF x.neg # y.neg THEN x.neg
           ELSE IF x.neg THEN MenorAbs(y.abs, x.abs)
           ELSE MenorAbs(x.abs, y.abs) : x \in {a}, y \in {b}})

\* max(a, b) and min(a, b): the first argument unless the second is beyond it
MaxF(a, b) == Unico({IF Menor(x, y) THEN y ELSE x : x \in {a}, y \in {b}})
MinF(a, b) == Unico({IF Menor(y, x) THEN y ELSE x : x \in {a}, y \in {b}})

\* ------------------------------- api.get_stats, list_ips, get_recent_pings
\* the rows of a set that are not losses: "tiempo_ms != -1"
Respondidas(filasSet) == {fila \in filasSet : fila.tiempo_ms # SIN_RESPUESTA}

RECURSIVE SumaMs(_)
SumaMs(filasSet) ==
    IF filasSet = {} THEN 0
    ELSE LET fila == CHOOSE f \in filasSet : TRUE
         IN  fila.tiempo_ms + SumaMs(filasSet \ {fila})

Minimo(numeros) == CHOOSE x \in numeros : \A y \in numeros : x <= y
Maximo(numeros) == CHOOSE x \in numeros : \A y \in numeros : x >= y

\* get_stats: the row of aggregates its first SELECT returns. An aggregate
\* over no value is NULL, COUNT(*) excepted.
Agregados(filasSet) ==
    LET validas == Respondidas(filasSet)
        ms == {fila.tiempo_ms : fila \in validas}
        fechas == {fila.timestamp : fila \in filasSet}
    IN  [total_pings |-> Cardinality(filasSet),
         timeouts |-> IF filasSet = {} THEN Ninguno
                      ELSE <<Cardinality(filasSet \ validas)>>,
         successful |-> IF filasSet = {} THEN Ninguno ELSE <<Cardinality(validas)>>,
         min_latency |-> IF validas = {} THEN Ninguno ELSE <<Minimo(ms)>>,
         max_latency |-> IF validas = {} THEN Ninguno ELSE <<Maximo(ms)>>,
         avg_latency |-> IF validas = {} THEN Ninguno
                         ELSE <<DobleDiv(SumaMs(validas), Cardinality(validas))>>,
         first_ping |-> IF filasSet = {} THEN Ninguno ELSE <<Minimo(fechas)>>,
         last_ping |-> IF filasSet = {} THEN Ninguno ELSE <<Maximo(fechas)>>]

\* "ORDER BY tiempo_ms", then sorted(latencies)
PorLatencia(a, b, e) ==
    a.tiempo_ms < b.tiempo_ms \/ (a.tiempo_ms = b.tiempo_ms /\ a.id < b.id)

RECURSIVE Latencias(_)
Latencias(s) == IF s = <<>> THEN <<>> ELSE <<Head(s).tiempo_ms>> \o Latencias(Tail(s))

\* "int(n * 0.50)", "int(n * 0.95)", "int(n * 0.99)": p is the literal in hundredths
IndicePercentil_menos(n, p) ==
    IF n = 1 THEN 0 ELSE ParteEntera(DobleMul(DobleDiv(p, 100), n - 1))
IndicePercentil(n, p) == ParteEntera(DobleMul(DobleDiv(p, 100), n))

\* sorted_latencies[int(n * p)]; percentiles.get(...) is None when there are none
Percentil(sorted_latencies, p) ==
    IF sorted_latencies = <<>> THEN Ninguno
    ELSE <<sorted_latencies[IndicePercentil(Len(sorted_latencies), p) + 1]>>

\* x or y
O(x, y) == IF x # Ninguno THEN x ELSE y

\* get_stats: the dictionary returned, from the row of aggregates and the latencies
Estadisticas(stats, latencies, f) ==
    [from |-> O(f.from_date, stats.first_ping),
     to |-> O(f.to_date, stats.last_ping),
     total_pings |-> stats.total_pings,
     successful |-> stats.successful,
     timeouts |-> stats.timeouts,
     packet_loss_percent |->
         IF stats.total_pings > 0
         THEN Centesimas(DobleMul(DobleDiv(stats.timeouts[1], stats.total_pings), 100))
         ELSE 0,
     min_ms |-> stats.min_latency,
     max_ms |-> stats.max_latency,
     avg_ms |-> IF stats.avg_latency = Ninguno \/ stats.avg_latency[1] = Cero
                THEN Ninguno
                ELSE <<Centesimas(stats.avg_latency[1])>>,
     median_ms |-> Percentil(latencies, 50),
     p95_ms |-> Percentil(latencies, 95),
     p99_ms |-> Percentil(latencies, 99)]

\* get_stats(ip, from_date, to_date): get_db_connection and the first SELECT
GetStatsAgregados(filtros) ==
    /\ Pide([SinConsulta EXCEPT !.op = "get_stats", !.filtros = filtros])
    /\ IF SinBaseDeDatos(almacen) THEN NoEncontrada("get_stats")
       ELSE /\ filas' = <<Agregados(Coinciden(pings, filtros))>>
            /\ rpc' = "latencias"
            /\ UNCHANGED resp

\* get_stats: the second SELECT, the percentiles and the returned dictionary
GetStatsLatencias ==
    /\ rpc = "latencias"
    /\ LET latencies == Latencias(EnOrden(Respondidas(Coinciden(pings, consulta.filtros)),
                                          PorLatencia, None))
       IN  resp' = [SinResp EXCEPT !.op = "get_stats", !.status = 200,
                                   !.quieto = (visto.huella = Huella),
                                   !.stats = <<Estadisticas(filas[1], latencies,
                                                           consulta.filtros)>>]
    /\ rpc' = "done"
    /\ UNCHANGED <<mosVars, arranqueVars, storeVars, visorVars, hiloVars, consulta, filas, visto, entre>>

\* get_recent_pings(ip, minutes): from_date is taken before get_db_connection
GetRecentPings(minutes) ==
    /\ Pide([SinConsulta EXCEPT !.op = "get_recent_pings", !.minutes = minutes,
                                !.filtros.from_date =
                                    <<Timestamp(reloj) - (60 * minutes)>>])
    /\ IF SinBaseDeDatos(almacen) THEN NoEncontrada("get_recent_pings")
       ELSE /\ \E empates \in {"asc", "desc"} :
                  LET rows == OrderByTimestampDesc(
                                  {fila \in Filas(pings) :
                                      fila.timestamp >= Timestamp(reloj) - (60 * minutes)},
                                  empates)
                  IN  resp' = [SinResp EXCEPT !.op = "get_recent_pings", !.status = 200,
                                              !.total_results = Len(rows),
                                              !.returned = Len(rows),
                                              !.pings = rows, !.quieto = TRUE]
            /\ filas' = <<>>
            /\ rpc' = "done"

\* list_ips: get_available_ips, then for the target found
\* "SELECT COUNT(*) as total FROM pings"
ListIpsCount ==
    /\ Pide([SinConsulta EXCEPT !.op = "list_ips"])
    /\ IF ~almacen
       THEN /\ resp' = [SinResp EXCEPT !.op = "list_ips", !.status = 200]
            /\ filas' = <<>>
            /\ rpc' = "done"
       ELSE /\ filas' = <<[total |-> Len(pings)]>>
            /\ rpc' = "minmax"
            /\ UNCHANGED resp

\* list_ips: "SELECT MIN(timestamp) as first, MAX(timestamp) as last FROM pings"
\* and the returned dictionary
ListIpsMinMax ==
    /\ rpc = "minmax"
    /\ LET row == Agregados(Filas(pings))
       IN  resp' = [SinResp EXCEPT !.op = "list_ips", !.status = 200,
                                   !.total_results = 1,
                                   !.quieto = (visto.huella = Huella),
                                   !.ips = <<[ip |-> direccion,
                                              total_pings |-> filas[1].total,
                                              first_ping |-> row.first_ping,
                                              last_ping |-> row.last_ping]>>]
    /\ rpc' = "done"
    /\ UNCHANGED <<mosVars, arranqueVars, storeVars, visorVars, hiloVars, consulta, filas, visto, entre>>

\* ---------------------------------------------------------- mos_functions
\* Numbers are fixed point: latencies, jitter, effective latency and R in
\* hundredths, the MOS in ten-thousandths, the loss in whole percent.
Abs(x) == IF x < 0 THEN -x ELSE x

RECURSIVE Sum(_)
Sum(s) == IF s = <<>> THEN 0 ELSE Head(s) + Sum(Tail(s))

\* calcular_mos(latencia_promedio, jitter, perdida_paquetes)
\*   -> <<MOS, R, latencia_efectiva>>
calcular_mos(latencia_promedio, jitter, perdida_paquetes) ==
    LET latencia_efectiva == latencia_promedio + (jitter * 2) + 1000
        R0 == IF latencia_efectiva < 16000
              THEN 9320 - (latencia_efectiva \div 40)
              ELSE 9320 - ((latencia_efectiva - 12000) \div 10)
        R1 == R0 - (perdida_paquetes * 250)
        R == Max(0, Min(10000, R1))
        Rt == R \div 10
        MOS0 == 10000 + ((35 * R) \div 10)
                      + ((7 * (Rt * (Rt - 600) * (1000 - Rt))) \div 100000)
        MOS == Max(10000, Min(50000, MOS0))
    IN  <<MOS, R, latencia_efectiva>>

\* the float literals of calcular_mos
F_93_2 == Positivo(DobleDiv(932, 10))
F_menos_2_5 == Con(TRUE, DobleDiv(5, 2))
F_2_5 == Positivo(DobleDiv(5, 2))
F_0_035 == Positivo(DobleDiv(35, 1000))
F_0_000007 == Positivo(Doble(7516, 202131, 942007, -70))

\* calcular_mos on floats, operation by operation in the order Python
\* evaluates them -> [MOS, R, latencia_efectiva]
calcular_mos_float(latencia_promedio, jitter, perdida_paquetes) ==
    LET R0(latencia_efectiva) ==
            IF Menor(latencia_efectiva, Flotante(160))
            THEN Resta(F_93_2, Cociente(latencia_efectiva, 40))
            ELSE Resta(F_93_2, Cociente(Resta(latencia_efectiva, Flotante(120)), 10))
        R1(latencia_efectiva) ==
            Resta(R0(latencia_efectiva), Producto(perdida_paquetes, F_2_5))
        MOS0(R) ==
            Suma(Suma(Flotante(1), Producto(F_0_035, R)),
                 Producto(Producto(Producto(F_0_000007, R), Resta(R, Flotante(60))),
                          Resta(Flotante(100), R)))
    IN  Unico({Unico({[MOS |-> MaxF(Flotante(1), MinF(Flotante(5), MOS0(R))), R |-> R,
                       latencia_efectiva |-> latencia_efectiva] :
                         R \in {MaxF(Flotante(0),
                                     MinF(Flotante(100), R1(latencia_efectiva)))}}) :
                  latencia_efectiva \in
                      {Suma(Suma(latencia_promedio, Producto(jitter, Flotante(2))),
                            Flotante(10))}})

\* one call of calcular_mos on the arguments held in medida
CalcularMos ==
    /\ puntuacion = Ninguno
    /\ puntuacion' = <<calcular_mos_float(medida.latencia_promedio, medida.jitter,
                                          medida.perdida_paquetes)>>
    /\ UNCHANGED <<medida, previa, sondeo, analisis>>
    /\ UNCHANGED <<storeVars, lectorVars, visorVars, hiloVars, arranqueVars>>

\* the next call is made with one argument larger and the others as they were
Aumenta(argumento, valor) ==
    /\ puntuacion # Ninguno
    /\ Menor(medida[argumento], valor)
    /\ previa' = <<[medida |-> medida, puntuacion |-> puntuacion[1]]>>
    /\ medida' = [medida EXCEPT ![argumento] = valor]
    /\ puntuacion' = Ninguno
    /\ UNCHANGED <<sondeo, analisis>>
    /\ UNCHANGED <<storeVars, lectorVars, visorVars, hiloVars, arranqueVars>>

\* arguments calcular_mos is called with: whole milliseconds and percentages
\* on both sides of every branch and clamp, and pairs of neighbouring floats:
\* 152.7662080839341 and 152.76620808393412, 53.152740020472734 and
\* 53.15274002047274, 25.177759760182283 and 25.177759760182287
LatenciasMos ==
    {Flotante(n) : n \in {0, 20, 100, 150, 200, 1000}}
        \cup {Positivo(Doble(4888, 543853, lo, -45)) : lo \in {52656, 52657}}
JittersMos ==
    {Flotante(n) : n \in {0, 5}}
        \cup {Positivo(Doble(6803, 577474, lo, -47)) : lo \in {547906, 547907}}
PerdidasMos ==
    {Flotante(n) : n \in {0, 2, 100}}
        \cup {Positivo(Doble(6445, 531102, lo, -48)) : lo \in {296728, 296729}}
Medidas ==
    [latencia_promedio : LatenciasMos, jitter : JittersMos, perdida_paquetes : PerdidasMos]
SinMedida ==
    [latencia_promedio |-> Flotante(0), jitter |-> Flotante(0),
     perdida_paquetes |-> Flotante(0)]

\* clasificar_mos(mos)
clasificar_mos_sinBuena(mos) ==
    IF mos >= 43000 THEN "Excelente"
    ELSE IF mos >= 36000 THEN "Aceptable"
    ELSE IF mos >= 31000 THEN "Pobre"
    ELSE "Mala"
clasificar_mos(mos) ==
    IF mos >= 43000 THEN "Excelente"
    ELSE IF mos >= 40000 THEN "Buena"
    ELSE IF mos >= 36000 THEN "Aceptable"
    ELSE IF mos >= 31000 THEN "Pobre"
    ELSE "Mala"

\* ---------------------------------------------------------- VisorIndividual
VENTANA_MOS == 50

EsperandoMuestras == "MOS: -- (esperando 50 muestras)"
InsuficientesDatos == "MOS: -- (insuficientes datos)"

\* deque(maxlen=n).append(x): a full deque drops its oldest element
DequeAppend_lleno(d, x, maxlen) ==
    IF Len(d) >= maxlen THEN d ELSE Append(d, x)
DequeAppend(d, x, maxlen) ==
    IF Len(d) >= maxlen THEN Append(Tail(d), x) ELSE Append(d, x)

\* process_ping_result: the entry a result leaves in ventana_mos
EntradaVentana(ms) == IF ms = SIN_RESPUESTA THEN <<0, FALSE>> ELSE <<ms, TRUE>>

\* calcular_y_actualizar_mos: "if len(latencias_validas) < 5"
PocasValidas_4(validas) == Len(validas) < 4
PocasValidas_le(validas) == Len(validas) <= 5
PocasValidas(validas) == Len(validas) < 5

\* process_ping_result: "paquetes_enviados == VENTANA_MOS or
\* paquetes_enviados % 10 == 0"
DebeRecalcular_solo50(enviados) == enviados = VENTANA_MOS
DebeRecalcular(enviados) == enviados = VENTANA_MOS \/ enviados % 10 = 0

\* the last n elements of a sequence
Ultimos(s, n) == SubSeq(s, Len(s) - Min(n, Len(s)) + 1, Len(s))

RECURSIVE Cuenta(_, _)
Cuenta(s, valor) ==
    IF s = <<>> THEN 0
    ELSE (IF Head(s) = valor THEN 1 ELSE 0) + Cuenta(Tail(s), valor)

RECURSIVE Validas(_)
Validas(ventana) ==
    IF ventana = <<>> THEN <<>>
    ELSE (IF Head(ventana)[2] THEN <<Head(ventana)[1]>> ELSE <<>>) \o Validas(Tail(ventana))

RECURSIVE Diferencias_sinAbs(_)
Diferencias_sinAbs(lat) ==
    IF Len(lat) < 2 THEN <<>>
    ELSE <<lat[2] - lat[1]>> \o Diferencias_sinAbs(Tail(lat))
RECURSIVE Diferencias(_)
Diferencias(lat) ==
    IF Len(lat) < 2 THEN <<>>
    ELSE <<Abs(lat[2] - lat[1])>> \o Diferencias(Tail(lat))

\* the state of the viewer, as one record
Visor ==
    [historial |-> historial, latencias_validas |-> latencias_validas,
     paquetes_enviados |-> paquetes_enviados,
     paquetes_recibidos |-> paquetes_recibidos,
     paquetes_perdidos |-> paquetes_perdidos, ventana_mos |-> ventana_mos,
     mos_actual |-> mos_actual, r_factor_actual |-> r_factor_actual,
     latencia_efectiva_actual |-> latencia_efectiva_actual,
     calidad_actual |-> calidad_actual, label_mos |-> label_mos,
     recalculo |-> recalculo]

\* VisorIndividual.update_mos_labels: the text of label_mos
update_mos_labels(v) ==
    [v EXCEPT !.label_mos = IF v.mos_actual = Ninguno
                            THEN InsuficientesDatos
                            ELSE "MOS: valor (calidad)"]

\* VisorIndividual.calcular_y_actualizar_mos
calcular_y_actualizar_mos(v) ==
    IF Len(v.ventana_mos) < VENTANA_MOS THEN v
    ELSE
    LET validas == Validas(v.ventana_mos)
        perdidos == Len(v.ventana_mos) - Len(validas)
        perdida_porcentaje == DobleMul(DobleDiv(perdidos, VENTANA_MOS), 100)
        visto50 == [hecho |-> TRUE, n |-> Len(v.ventana_mos),
                    enviados |-> v.paquetes_enviados,
                    perdida_porcentaje |-> perdida_porcentaje,
                    validas |-> Len(v.ventana_mos)
                        - Cuenta(Ultimos(v.historial, VENTANA_MOS), SIN_RESPUESTA),
                    latencia_promedio |-> Ninguno, jitter |-> Ninguno]
    IN  IF PocasValidas(validas)
        THEN [v EXCEPT !.mos_actual = Ninguno,
                       !.calidad_actual = "Insuficientes datos",
                       !.recalculo = visto50]
        ELSE
        LET latencia_promedio == (100 * Sum(validas)) \div Len(validas)
            diferencias == Diferencias(validas)
            jitter == IF Len(validas) >= 2
                      THEN (100 * Sum(diferencias)) \div Len(diferencias)
                      ELSE 0
            mos == calcular_mos(latencia_promedio, jitter,
                                EnteroMasCercano(perdida_porcentaje))
        IN  update_mos_labels(
                [v EXCEPT !.mos_actual = <<mos[1]>>,
                          !.r_factor_actual = <<mos[2]>>,
                          !.latencia_efectiva_actual = <<mos[3]>>,
                          !.calidad_actual = clasificar_mos(mos[1]),
                          !.recalculo = [visto50 EXCEPT
                                            !.latencia_promedio = <<latencia_promedio>>,
                                            !.jitter = <<jitter>>]])

\* VisorIndividual.process_ping_result(ts, ms)
process_ping_result(v, ms, pausado) ==
    IF pausado THEN v
    ELSE
    LET perdido == (ms = SIN_RESPUESTA)
        w == [v EXCEPT
                !.historial = Append(@, ms),
                !.paquetes_enviados = @ + 1,
                !.paquetes_perdidos = IF perdido THEN @ + 1 ELSE @,
                !.paquetes_recibidos = IF perdido THEN @ ELSE @ + 1,
                !.latencias_validas = IF perdido THEN @ ELSE Append(@, ms),
                !.ventana_mos = DequeAppend(@, EntradaVentana(ms), VENTANA_MOS)]
    IN  IF Len(w.ventana_mos) = VENTANA_MOS /\ DebeRecalcular(w.paquetes_enviados)
        THEN calcular_y_actualizar_mos(w)
        ELSE w

\* check_queue: "while not self.ping_queue.empty()": every queued item is
\* taken, unpacked as (ts, ms) and handed to process_ping_result. An item that
\* is not a pair makes the unpacking raise: it is gone from the queue, and the
\* items behind it stay.
RECURSIVE Vaciar(_, _, _)
Vaciar(v, cola, pausado) ==
    IF cola = <<>> THEN [v |-> v, cola |-> <<>>, error |-> FALSE]
    ELSE IF Len(Head(cola)) # 2 THEN [v |-> v, cola |-> Tail(cola), error |-> TRUE]
    ELSE Vaciar(process_ping_result(v, Head(cola)[2], pausado), Tail(cola), pausado)

PoneVisor(v) ==
    /\ historial' = v.historial
    /\ latencias_validas' = v.latencias_validas
    /\ paquetes_enviados' = v.paquetes_enviados
    /\ paquetes_recibidos' = v.paquetes_recibidos
    /\ paquetes_perdidos' = v.paquetes_perdidos
    /\ ventana_mos' = v.ventana_mos
    /\ mos_actual' = v.mos_actual
    /\ r_factor_actual' = v.r_factor_actual
    /\ latencia_efectiva_actual' = v.latencia_efectiva_actual
    /\ calidad_actual' = v.calidad_actual
    /\ label_mos' = v.label_mos
    /\ recalculo' = v.recalculo

SinRecalculo ==
    [hecho |-> FALSE, n |-> 0, enviados |-> 0, perdida_porcentaje |-> Cero,
     validas |-> 0, latencia_promedio |-> Ninguno, jitter |-> Ninguno]

\* the state VisorIndividual.__init__ and VisorIndividual.clear leave
VisorVacio_conFactor ==
    [historial |-> <<>>, latencias_validas |-> <<>>, paquetes_enviados |-> 0,
     paquetes_recibidos |-> 0, paquetes_perdidos |-> 0, ventana_mos |-> <<>>,
     mos_actual |-> Ninguno, r_factor_actual |-> <<0>>,
     latencia_efectiva_actual |-> Ninguno, calidad_actual |-> None,
     label_mos |-> EsperandoMuestras, recalculo |-> SinRecalculo]
VisorVacio ==
    [historial |-> <<>>, latencias_validas |-> <<>>, paquetes_enviados |-> 0,
     paquetes_recibidos |-> 0, paquetes_perdidos |-> 0, ventana_mos |-> <<>>,
     mos_actual |-> Ninguno, r_factor_actual |-> Ninguno,
     latencia_efectiva_actual |-> Ninguno, calidad_actual |-> None,
     label_mos |-> EsperandoMuestras, recalculo |-> SinRecalculo]

\* the fields as VisorIndividual.__init__ sets them: the values clear restores
PoneVisorInicial ==
    /\ historial = VisorVacio.historial
    /\ latencias_validas = VisorVacio.latencias_validas
    /\ paquetes_enviados = VisorVacio.paquetes_enviados
    /\ paquetes_recibidos = VisorVacio.paquetes_recibidos
    /\ paquetes_perdidos = VisorVacio.paquetes_perdidos
    /\ ventana_mos = VisorVacio.ventana_mos
    /\ mos_actual = VisorVacio.mos_actual
    /\ r_factor_actual = VisorVacio.r_factor_actual
    /\ latencia_efectiva_actual = VisorVacio.latencia_efectiva_actual
    /\ calidad_actual = VisorVacio.calidad_actual
    /\ label_mos = VisorVacio.label_mos
    /\ recalculo = VisorVacio.recalculo

\* the viewer holds the state v
VisorEs(v) ==
    /\ historial = v.historial
    /\ latencias_validas = v.latencias_validas
    /\ paquetes_enviados = v.paquetes_enviados
    /\ paquetes_recibidos = v.paquetes_recibidos
    /\ paquetes_perdidos = v.paquetes_perdidos
    /\ ventana_mos = v.ventana_mos
    /\ mos_actual = v.mos_actual
    /\ r_factor_actual = v.r_factor_actual
    /\ latencia_efectiva_actual = v.latencia_efectiva_actual
    /\ calidad_actual = v.calidad_actual
    /\ label_mos = v.label_mos
    /\ recalculo = v.recalculo

EsRespuesta(ms) == ms # SIN_RESPUESTA

\* the viewer after process_ping_result has taken these results, fewer than
\* VENTANA_MOS of them, one by one: nothing has been recomputed or dropped yet
VisorCon(resultados) ==
    [VisorVacio EXCEPT
        !.historial = resultados,
        !.latencias_validas = SelectSeq(resultados, EsRespuesta),
        !.paquetes_enviados = Len(resultados),
        !.paquetes_recibidos = Len(SelectSeq(resultados, EsRespuesta)),
        !.paquetes_perdidos = Cuenta(resultados, SIN_RESPUESTA),
        !.ventana_mos = [i \in 1..Len(resultados) |-> EntradaVentana(resultados[i])]]

\* PingThread.run as the viewer sees it: self.queue.put((ts, resultado_ms))
Put(ms) ==
    /\ Len(ping_queue) < MaxCola
    /\ paquetes_enviados + Len(ping_queue) < MaxMuestras
    /\ ultimo_ms \in {0, ms} \/ cambios < MaxCambios
    /\ ping_queue' = Append(ping_queue, <<ahora, ms>>)
    /\ ultimo_ms' = ms
    /\ cambios' = IF ultimo_ms \in {0, ms} THEN cambios ELSE cambios + 1
    /\ UNCHANGED <<mosVars, arranqueVars, storeVars, lectorVars, hiloVars, historial, latencias_validas,
                   paquetes_enviados, paquetes_recibidos, paquetes_perdidos,
                   ventana_mos, mos_actual, r_factor_actual,
                   latencia_efectiva_actual, calidad_actual, label_mos, btn_pause,
                   recalculo>>

\* the interpreter exits: its daemon threads end wherever they are
HiloAlSalir == IF hilo = "fin" THEN "fin" ELSE "muerto"

\* VisorIndividual.check_queue, on the timer of the user interface. An
\* exception that leaves the slot is either printed or, with the default
\* excepthook of PyQt5 5.5 and later, ends the process.
CheckQueue ==
    /\ proceso = "vivo"
    /\ ping_queue # <<>>
    /\ LET r == Vaciar(Visor, ping_queue, btn_pause)
       IN  /\ PoneVisor(r.v)
           /\ ping_queue' = r.cola
           /\ \E aborta \in (IF r.error THEN BOOLEAN ELSE {FALSE}) :
                  /\ proceso' = IF aborta THEN "terminado" ELSE proceso
                  /\ hilo' = IF aborta THEN HiloAlSalir ELSE hilo
    /\ UNCHANGED <<mosVars, arranqueVars, storeVars, lectorVars, btn_pause, ultimo_ms, cambios, running,
                   guardar_bd, conn, bd, resultado_ms, ts, ahora, iteraciones,
                   paradas, cerrada>>

\* VisorIndividual.toggle_pause: the button is pressed
TogglePause ==
    /\ proceso = "vivo"
    /\ btn_pause' = ~btn_pause
    /\ UNCHANGED <<mosVars, arranqueVars, storeVars, lectorVars, hiloVars, historial, latencias_validas,
                   paquetes_enviados, paquetes_recibidos, paquetes_perdidos,
                   ventana_mos, mos_actual, r_factor_actual,
                   latencia_efectiva_actual, calidad_actual, label_mos, ping_queue,
                   recalculo, ultimo_ms, cambios>>

\* VisorIndividual.clear
Clear ==
    /\ proceso = "vivo"
    /\ PoneVisor(VisorVacio)
    /\ UNCHANGED <<mosVars, arranqueVars, storeVars, lectorVars, hiloVars, btn_pause, ping_queue,
                   ultimo_ms, cambios>>

\* ------------------------------------------------ PingThread (visorIndividual)
PERIODO_MS == 1000      \* ping_unico: "espera = 1 - rtt", in seconds
TIMEOUT_MS == 4000      \* ping_unico: ping(ip, timeout=4)

\* what ping3.ping gives: a round trip time (here in ms), None after the
\* timeout, False on an error it reports itself, or an exception
Rtts == {0, 1, 20, 1500}
RespuestasPing ==
    {[tipo |-> "rtt", rtt |-> x] : x \in Rtts}
        \cup {[tipo |-> t, rtt |-> 0] : t \in {"None", "False", "raise"}}

\* how long guardar_ping takes, in ms
Escrituras == {0, 10}

\* netutils.ping_unico for an answer of ping3.ping that is no exception:
\* the result in ms and the time the call takes, its sleep included
ping_unico(r) ==
    IF r.tipo = "None"
    THEN [ms |-> SIN_RESPUESTA, trabajo |-> TIMEOUT_MS, duracion |-> TIMEOUT_MS]
    ELSE LET rtt == IF r.tipo = "False" THEN 0 ELSE r.rtt
             espera == PERIODO_MS - rtt
         IN  [ms |-> rtt, trabajo |-> rtt,
              duracion |-> rtt + (IF espera > 0 THEN espera ELSE 0)]

\* PingThread.stop: the value running is given
Detenido_alterna(r) == ~r
Detenido(r) == FALSE

Iteracion(inicio) ==
    [inicio |-> inicio, trabajo |-> 0, ms |-> 0, guardado |-> FALSE,
     encolado |-> FALSE, fallo |-> None]

EnCurso == iteraciones[Len(iteraciones)]

Anota(it) == iteraciones' = [iteraciones EXCEPT ![Len(iteraciones)] = it]

\* "while self.running:" and "ts = time.time()"
HiloWhile ==
    /\ proceso = "vivo"
    /\ hilo = "while"
    /\ IF running
       THEN /\ Len(iteraciones) < MaxTicks
            /\ ts' = ahora
            /\ iteraciones' = Append(iteraciones, Iteracion(ahora))
            /\ hilo' = "ping"
       ELSE /\ hilo' = "finally"
            /\ UNCHANGED <<ts, iteraciones>>
    /\ UNCHANGED <<mosVars, arranqueVars, storeVars, lectorVars, visorVars, running, guardar_bd, conn, bd,
                   resultado_ms, ahora, paradas, cerrada, proceso>>

\* "resultado_ms = ping_unico(self.ip)"
HiloPing(r) ==
    /\ proceso = "vivo"
    /\ hilo = "ping"
    /\ IF r.tipo = "raise"
       THEN /\ hilo' = "except"
            /\ Anota([EnCurso EXCEPT !.fallo = "ping"])
            /\ UNCHANGED <<resultado_ms, ahora>>
       ELSE /\ hilo' = "guardar"
            /\ resultado_ms' = ping_unico(r).ms
            /\ ahora' = ahora + ping_unico(r).duracion
            /\ Anota([EnCurso EXCEPT !.ms = ping_unico(r).ms,
                                     !.trabajo = ping_unico(r).trabajo])
    /\ UNCHANGED <<mosVars, arranqueVars, storeVars, lectorVars, visorVars, running, guardar_bd, conn, bd,
                   ts, paradas, cerrada, proceso>>

\* "if self.guardar_bd and self.conn: guardar_ping(self.conn, resultado_ms)"
HiloGuardar(escritura) ==
    /\ proceso = "vivo"
    /\ hilo = "guardar"
    /\ IF guardar_bd /\ conn # None
       THEN /\ bd' = Append(bd, <<ahora, resultado_ms>>)
            /\ ahora' = ahora + escritura
            /\ Anota([EnCurso EXCEPT !.guardado = TRUE, !.trabajo = @ + escritura])
       ELSE /\ escritura = 0
            /\ UNCHANGED <<bd, ahora, iteraciones>>
    /\ hilo' = "put"
    /\ UNCHANGED <<mosVars, arranqueVars, storeVars, lectorVars, visorVars, running, guardar_bd, conn,
                   resultado_ms, ts, paradas, cerrada, proceso>>

\* guardar_ping raises: sqlite3 refuses the insert or the commit
HiloGuardarFalla ==
    /\ proceso = "vivo"
    /\ hilo = "guardar"
    /\ guardar_bd /\ conn # None
    /\ hilo' = "except"
    /\ Anota([EnCurso EXCEPT !.fallo = "guardar"])
    /\ UNCHANGED <<mosVars, arranqueVars, storeVars, lectorVars, visorVars, running, guardar_bd, conn, bd,
                   resultado_ms, ts, ahora, paradas, cerrada, proceso>>

\* "self.queue.put((ts, resultado_ms))"
HiloPut ==
    /\ proceso = "vivo"
    /\ hilo = "put"
    /\ ping_queue' = Append(ping_queue, <<ts, resultado_ms>>)
    /\ Anota([EnCurso EXCEPT !.encolado = TRUE])
    /\ hilo' = "while"
    /\ UNCHANGED <<mosVars, arranqueVars, storeVars, lectorVars, historial, latencias_validas,
                   paquetes_enviados, paquetes_recibidos, paquetes_perdidos,
                   ventana_mos, mos_actual, r_factor_actual,
                   latencia_efectiva_actual, calidad_actual, label_mos, btn_pause,
                   recalculo, ultimo_ms, cambios, running, guardar_bd, conn, bd,
                   resultado_ms, ts, ahora, paradas, cerrada, proceso>>

\* "except Exception as e: self.queue.put((time.time(), None, f"ERROR: ..."))"
HiloExcept ==
    /\ proceso = "vivo"
    /\ hilo = "except"
    /\ ping_queue' = Append(ping_queue, <<ahora, None, "ERROR">>)
    /\ hilo' = "finally"
    /\ UNCHANGED <<mosVars, arranqueVars, storeVars, lectorVars, historial, latencias_validas,
                   paquetes_enviados, paquetes_recibidos, paquetes_perdidos,
                   ventana_mos, mos_actual, r_factor_actual,
                   latencia_efectiva_actual, calidad_actual, label_mos, btn_pause,
                   recalculo, ultimo_ms, cambios, running, guardar_bd, conn, bd,
                   resultado_ms, ts, ahora, iteraciones, paradas, cerrada, proceso>>

\* "finally: if self.conn: self.conn.close()"
HiloFinally ==
    /\ proceso = "vivo"
    /\ hilo = "finally"
    /\ conn' = IF conn # None THEN "cerrada" ELSE conn
    /\ hilo' = "fin"
    /\ UNCHANGED <<mosVars, arranqueVars, storeVars, lectorVars, visorVars, running, guardar_bd, bd,
                   resultado_ms, ts, ahora, iteraciones, paradas, cerrada, proceso>>

\* VisorIndividual.closeEvent: self.ping_thread.stop(), event.accept()
CloseEvent ==
    /\ proceso = "vivo"
    /\ paradas < MaxParadas
    /\ running' = Detenido(running)
    /\ paradas' = paradas + 1
    /\ cerrada' = TRUE
    /\ UNCHANGED <<mosVars, arranqueVars, storeVars, lectorVars, visorVars, hilo, guardar_bd, conn, bd,
                   resultado_ms, ts, ahora, iteraciones, proceso>>

\* main: "sys.exit(app.exec_())" once the window is closed. The thread is a
\* daemon and nobody joins it.
SalirProceso ==
    /\ proceso = "vivo"
    /\ cerrada
    /\ proceso' = "terminado"
    /\ hilo' = HiloAlSalir
    /\ UNCHANGED <<mosVars, arranqueVars, storeVars, lectorVars, visorVars, running, guardar_bd, conn, bd,
                   resultado_ms, ts, ahora, iteraciones, paradas, cerrada>>

\* ------------------------------------------------- starting to monitor a target
\* A string is a sequence of characters, each a string of length one.
Digitos == <<"0", "1", "2", "3", "4", "5", "6", "7", "8", "9">>

\* the characters from a to b, both digits
Entre(a, b) == {Digitos[i] : i \in (a + 1)..(b + 1)}

Car(s, i) == IF i \in 1..Len(s) THEN s[i] ELSE ""

\* validar_ip: where a match of
\*   25[0-5] | 2[0-4][0-9] | 1[0-9]{2} | [1-9]?[0-9]
\* that starts at position i may end (the position after its last character)
Octeto(s, i) ==
    (IF /\ Car(s, i) = "2" /\ Car(s, i + 1) = "5" /\ Car(s, i + 2) \in Entre(0, 5)
     THEN {i + 3} ELSE {})
    \cup (IF /\ Car(s, i) = "2" /\ Car(s, i + 1) \in Entre(0, 4)
             /\ Car(s, i + 2) \in Entre(0, 9)
          THEN {i + 3} ELSE {})
    \cup (IF /\ Car(s, i) = "1" /\ Car(s, i + 1) \in Entre(0, 9)
             /\ Car(s, i + 2) \in Entre(0, 9)
          THEN {i + 3} ELSE {})
    \cup (IF Car(s, i) \in Entre(1, 9) /\ Car(s, i + 1) \in Entre(0, 9)
          THEN {i + 2} ELSE {})
    \cup (IF Car(s, i) \in Entre(0, 9) THEN {i + 1} ELSE {})

\* validar_ip: "(...)\." from one of the positions of desde
OctetoPunto(s, desde) ==
    UNION {{j + 1 : j \in {k \in Octeto(s, i) : Car(s, k) = "."}} : i \in desde}

\* "$" without re.MULTILINE: the end of the string, or just before a newline
\* that is the last character of the string
FinDeCadena(s, j) == j = Len(s) + 1 \/ (j = Len(s) /\ s[j] = "\n")

\* validar_ip(ip): re.match(patron, ip) is not None
validar_ip(ip) ==
    LET tres == OctetoPunto(ip, OctetoPunto(ip, OctetoPunto(ip, {1})))
    IN  \E i \in tres : \E j \in Octeto(ip, i) : FinDeCadena(ip, j)

\* the state of one prober
ProberNuevo == [estado |-> "nuevo", conn |-> None, enviados |-> 0]
Probers == {1, 2}

\* preparar_bd_sqlite(ip): os.makedirs(carpeta, exist_ok=True), sqlite3.connect,
\* CREATE TABLE IF NOT EXISTS. Whether another connection is writing to the
\* file is not looked at.
preparar_bd_sqlite(p) ==
    /\ almacen' = TRUE
    /\ probers' = [probers EXCEPT ![p] = [estado |-> "bucle", conn |-> "abierta",
                                          enviados |-> 0]]

\* validation failed: ValueError leaves the start operation
Rechaza(p) ==
    /\ probers' = [probers EXCEPT ![p].estado = "rechazado"]
    /\ UNCHANGED almacen

\* grabar_ping(ip), up to the loop
GrabarPing(p) ==
    /\ probers[p].estado = "nuevo"
    /\ IF ~validar_ip(direccion) THEN Rechaza(p) ELSE preparar_bd_sqlite(p)
    /\ UNCHANGED <<mosVars, storeVars, lectorVars, visorVars, hiloVars, direccion, escritos>>

\* VisorIndividual(ip, guardar_bd): validation, PingThread.__init__, start()
VisorIndividualInit(p, guardar) ==
    /\ probers[p].estado = "nuevo"
    /\ IF ~validar_ip(direccion) THEN Rechaza(p)
       ELSE IF guardar THEN preparar_bd_sqlite(p)
       ELSE /\ probers' = [probers EXCEPT ![p].estado = "bucle"]
            /\ UNCHANGED almacen
    /\ UNCHANGED <<mosVars, storeVars, lectorVars, visorVars, hiloVars, direccion, escritos>>

\* guardar_ping(conn, tiempo_ms): INSERT INTO pings and conn.commit(), with the
\* timestamp of the wall clock
guardar_ping(tabla, tiempo_ms) ==
    tabla \o InsertRows(tabla, <<>>, <<<<Timestamp(reloj), tiempo_ms>>>>, 1)

\* one iteration of the loop of grabar_ping or of PingThread.run:
\* ping_unico(ip), then guardar_ping(conn, resultado) when there is a connection
ProberIteracion(p, ms) ==
    /\ probers[p].estado = "bucle"
    /\ probers[p].enviados < MaxEnviados
    /\ probers' = [probers EXCEPT ![p].enviados = @ + 1]
    /\ IF probers[p].conn = "abierta"
       THEN /\ pings' = guardar_ping(pings, ms)
            /\ escritos' = Append(escritos, p)
       ELSE UNCHANGED <<pings, escritos>>
    /\ UNCHANGED <<batch_size, buffer, txn, conn_abierta, pc, llamada, ultima, seguidos,
                   reloj, fallos, appended, flushed>>
    /\ UNCHANGED <<mosVars, lectorVars, visorVars, hiloVars, direccion, almacen>>

\* the loop ends (Ctrl+C, stop()): "finally: conn.close()"
ProberFin(p) ==
    /\ probers[p].estado = "bucle"
    /\ probers' = [probers EXCEPT ![p].estado = "fin",
                                  ![p].conn = IF @ = None THEN None ELSE "cerrada"]
    /\ UNCHANGED <<mosVars, storeVars, lectorVars, visorVars, hiloVars, direccion, almacen,
                   escritos>>

\* the strings given as ip: trozos joined by dots, then a tail
RECURSIVE Une(_)
Une(trozos) ==
    IF Len(trozos) = 1 THEN trozos[1]
    ELSE trozos[1] \o <<".">> \o Une(Tail(trozos))

Trozos == {<<"0">>, <<"8">>, <<"0", "1">>, <<"1", "0">>, <<"2", "5", "5">>,
           <<"2", "5", "6">>, <<"1", "a">>, <<>>}
Colas == {<<>>, <<"\n">>, <<" ">>, <<".">>, <<"\n", "\n">>}
Direcciones ==
    {Une(<<a, <<"8">>, <<"8">>, d>>) \o cola : a \in Trozos, d \in Trozos, cola \in Colas}
    \cup {Une(<<a, <<"8">>, d>>) \o cola : a \in Trozos, d \in Trozos, cola \in Colas}
    \cup {Une(<<a, <<"8">>, <<"8">>, <<"8">>, d>>) : a \in Trozos, d \in Trozos}
Conocida == <<"8", ".", "8", ".", "8", ".", "8">>

\* ------------------------------------------------------------ specification
vars == <<storeVars, lectorVars, visorVars, hiloVars, arranqueVars, mosVars>>

\* BatchPingSaver.__init__ with batch_size one of sizes, on a store that holds
\* one of tablas, at the time hora of the wall clock
SaverSobre(sizes, tablas, hora) ==
    /\ batch_size \in sizes
    /\ buffer = <<>>
    /\ txn = <<>>
    /\ pings \in tablas
    /\ conn_abierta = TRUE
    /\ pc = "idle"
    /\ llamada = None
    /\ ultima = [op |-> None, ok |-> TRUE]
    /\ seguidos = 0
    /\ reloj = hora
    /\ fallos = 0
    /\ appended = <<>>
    /\ flushed = <<>>

\* BatchPingSaver.__init__ on a fresh store, batch_size one of sizes
SaverInicial(sizes) == SaverSobre(sizes, {<<>>}, 0)

\* no get_pings request in progress
LectorInicial ==
    /\ rpc = "idle"
    /\ consulta = SinConsulta
    /\ filas = <<>>
    /\ resp = SinResp
    /\ visto = SinVisto
    /\ entre = 0

\* VisorIndividual.__init__ and init_ui
VisorInicial ==
    /\ PoneVisorInicial
    /\ btn_pause = FALSE
    /\ ping_queue = <<>>
    /\ ultimo_ms = 0
    /\ cambios = 0

\* PingThread.__init__ and start(): the thread is about to test running
HiloInicial(opciones) ==
    /\ running = TRUE
    /\ hilo = "while"
    /\ guardar_bd \in opciones
    /\ conn = IF guardar_bd THEN "abierta" ELSE None
    /\ bd = <<>>
    /\ resultado_ms = 0
    /\ ts = 0
    /\ ahora = 0
    /\ iteraciones = <<>>
    /\ paradas = 0
    /\ cerrada = FALSE
    /\ proceso = "vivo"

\* nothing has been started for the address given; existe tells whether
\* an earlier run left pings/<ip>/datos.db behind
ArranqueInicial(direcciones, existe) ==
    /\ direccion \in direcciones
    /\ almacen \in existe
    /\ probers = [p \in Probers |-> ProberNuevo]
    /\ escritos = <<>>

\* calcular_mos has not been called on the arguments chosen
\* ------------------------------------------------ mos_functions.analizar_ip
\* Round trip times are in microseconds, the latencies of the file and what
\* is computed from them in hundredths of a millisecond.
UMBRAL_RTT_US == 1000       \* "resultado > 0.001"

\* what one call of ping3.ping does: it raises, or returns None or seconds
Sondeos ==
    {[lanza |-> TRUE, rtt |-> Ninguno]}
        \cup {[lanza |-> FALSE, rtt |-> r] :
                 r \in {Ninguno, <<UMBRAL_RTT_US>>, <<20000>>, <<30507>>}}

\* "resultado is not None and resultado > 0.001"
RespuestaValida_igual(resultado) == resultado # Ninguno /\ resultado[1] >= UMBRAL_RTT_US
RespuestaValida(resultado) == resultado # Ninguno /\ resultado[1] > UMBRAL_RTT_US

\* f"time={lat:.2f} ms" read back by float(): the nearest hundredth
Formato2f(us) == (us + 5) \div 10

\* x > n for a double x >= 0 and an int n
Mayor(x, n) == ParteEntera(x) >= n /\ x # DobleDeEntero(n)

\* "(perdidos / enviados) * 100 if enviados > 0 else 0"
PorcentajePerdida(perdidos, enviados) ==
    IF enviados > 0 THEN DobleMul(DobleDiv(perdidos, enviados), 100) ELSE Cero

NombreArchivo == "pings/ping-ip-fecha.txt"

SinSondeo ==
    [pc |-> "no", cantidad |-> 0, i |-> 0, paquetes_enviados |-> 0,
     paquetes_recibidos |-> 0, latencias |-> <<>>, crudos |-> [s \in Sondeos |-> 0],
     archivo |-> Ninguno, retorno |-> Ninguno]

\* analizar_ip(ip, cantidad_pings) calls hacer_ping(ip, cantidad_pings)
AnalizarIp(cantidad) ==
    /\ sondeo.pc = "no"
    /\ analisis = Ninguno
    /\ sondeo' = [SinSondeo EXCEPT !.pc = "bucle", !.cantidad = cantidad]
    /\ UNCHANGED <<medida, puntuacion, previa, analisis>>
    /\ UNCHANGED <<storeVars, lectorVars, visorVars, hiloVars, arranqueVars>>

\* hacer_ping: one iteration of "for i in range(cantidad)"
Sondea(s) ==
    /\ sondeo.pc = "bucle"
    /\ sondeo.i < sondeo.cantidad
    /\ LET enviado == [sondeo EXCEPT !.i = @ + 1, !.paquetes_enviados = @ + 1,
                                     !.crudos[s] = @ + 1]
       IN  sondeo' = IF ~s.lanza /\ RespuestaValida(s.rtt)
                     THEN [enviado EXCEPT !.latencias = Append(@, s.rtt[1]),
                                          !.paquetes_recibidos = @ + 1]
                     ELSE enviado
    /\ UNCHANGED <<medida, puntuacion, previa, analisis>>
    /\ UNCHANGED <<storeVars, lectorVars, visorVars, hiloVars, arranqueVars>>

\* hacer_ping after the loop: the loss, the file, and the name or None
HacerPingFin ==
    /\ sondeo.pc = "bucle"
    /\ sondeo.i = sondeo.cantidad
    /\ LET latencias == sondeo.latencias
           perdidos == sondeo.paquetes_enviados - sondeo.paquetes_recibidos
           porcentaje_perdida == PorcentajePerdida(perdidos, sondeo.paquetes_enviados)
       IN  sondeo' =
               [sondeo EXCEPT
                   !.pc = "fin",
                   !.archivo = <<[enviados |-> sondeo.paquetes_enviados,
                                  recibidos |-> sondeo.paquetes_recibidos,
                                  tiempos |-> [k \in 1..Len(latencias) |->
                                                  Formato2f(latencias[k])]]>>,
                   !.retorno = IF latencias # <<>> /\ Len(latencias) >= 5
                                  /\ ~Mayor(porcentaje_perdida, 50)
                               THEN <<NombreArchivo>> ELSE Ninguno]
    /\ UNCHANGED <<medida, puntuacion, previa, analisis>>
    /\ UNCHANGED <<storeVars, lectorVars, visorVars, hiloVars, arranqueVars>>

\* the three readers of the file: the "time=" lines, or None
calcular_latencia_promedio(archivo) ==
    IF archivo.tiempos = <<>> THEN Ninguno
    ELSE <<Sum(archivo.tiempos) \div Len(archivo.tiempos)>>

calcular_jitter(archivo) ==
    IF Len(archivo.tiempos) < 2 THEN Ninguno
    ELSE <<Sum(Diferencias(archivo.tiempos)) \div (Len(archivo.tiempos) - 1)>>

calcular_paquetes_perdidos(archivo) ==
    <<PorcentajePerdida(archivo.enviados - archivo.recibidos, archivo.enviados)>>

ResultadoError(mensaje) ==
    [error |-> TRUE, mensaje |-> mensaje, latencia |-> Ninguno, jitter |-> Ninguno,
     perdida |-> Ninguno, mos |-> Ninguno, calidad |-> None, archivo |-> Ninguno]

\* analizar_ip from the return of hacer_ping on: the dictionary it returns
ResultadoAnalisis(retorno, archivos) ==
    IF retorno = Ninguno
    THEN ResultadoError("Conexion inestable o sin respuesta (>50% perdida)")
    ELSE
    LET latencia == calcular_latencia_promedio(archivos[1])
        jitter == calcular_jitter(archivos[1])
        perdida == calcular_paquetes_perdidos(archivos[1])
    IN  IF latencia = Ninguno THEN ResultadoError("No se pudo calcular la latencia")
        ELSE IF jitter = Ninguno THEN ResultadoError("No se pudo calcular el jitter")
        ELSE IF perdida = Ninguno
        THEN ResultadoError("No se pudo calcular la perdida de paquetes")
        ELSE IF Mayor(perdida[1], 50)
        THEN ResultadoError("Perdida de paquetes excesiva")
        ELSE LET mos == calcular_mos(latencia[1], jitter[1],
                                     EnteroMasCercano(perdida[1]))
             IN  [error |-> FALSE, mensaje |-> None, latencia |-> latencia,
                  jitter |-> jitter, perdida |-> perdida, mos |-> <<mos[1]>>,
                  calidad |-> clasificar_mos(mos[1]), archivo |-> retorno]

AnalizarIpFin ==
    /\ sondeo.pc = "fin"
    /\ analisis = Ninguno
    /\ analisis' = <<ResultadoAnalisis(sondeo.retorno, sondeo.archivo)>>
    /\ UNCHANGED <<medida, puntuacion, previa, sondeo>>
    /\ UNCHANGED <<storeVars, lectorVars, visorVars, hiloVars, arranqueVars>>

MosInicial(medidas) ==
    /\ medida \in medidas
    /\ puntuacion = Ninguno
    /\ previa = Ninguno
    /\ sondeo = SinSondeo
    /\ analisis = Ninguno

\* the batched store alone: one writer
InitStore ==
    SaverInicial(1..MaxBatch) /\ LectorInicial /\ VisorInicial /\ HiloInicial({TRUE})
    /\ ArranqueInicial({Conocida}, {TRUE}) /\ MosInicial({SinMedida})

NextStore ==
    \/ \E tiempo_ms \in TiemposMs : AgregarPing(tiempo_ms)
    \/ Flush
    \/ Close
    \/ Executemany
    \/ ExecutemanyFalla
    \/ Commit
    \/ CommitFalla
    \/ BufferClear
    \/ Tick

SpecStore == InitStore /\ [][NextStore]_vars

\* the batched store and a reader of it
InitLector ==
    SaverInicial(1..MaxBatch) /\ LectorInicial /\ VisorInicial /\ HiloInicial({TRUE})
    /\ ArranqueInicial({Conocida}, {TRUE}) /\ MosInicial({SinMedida})

NextLector ==
    \/ \E tiempo_ms \in TiemposMs : AgregarPing(tiempo_ms)
    \/ Flush
    \/ Close
    \/ Executemany
    \/ ExecutemanyFalla
    \/ Commit
    \/ CommitFalla
    \/ BufferClear
    \/ Tick
    \/ \E limit \in {1, MaxLimit}, offset \in 0..1 : GetPingsSelect(limit, offset, SinFiltros)
    \/ GetPingsCount
    \/ GetPingsReturn

SpecLector == InitLector /\ [][NextLector]_vars

\* the viewer and the thread that feeds its queue; the saver, which the viewer
\* does not use, is left as constructed with its default batch_size
InitVisor ==
    SaverInicial({10}) /\ LectorInicial /\ VisorInicial /\ HiloInicial({TRUE})
    /\ ArranqueInicial({Conocida}, {TRUE}) /\ MosInicial({SinMedida})

NextVisor ==
    \/ \E ms \in TiemposMs : Put(ms)
    \/ CheckQueue
    \/ TogglePause
    \/ Clear

SpecVisor == InitVisor /\ [][NextVisor]_vars

\* one call of analizar_ip
InitAnalisis ==
    SaverInicial({10}) /\ LectorInicial /\ VisorInicial /\ HiloInicial({TRUE})
    /\ ArranqueInicial({Conocida}, {TRUE}) /\ MosInicial({SinMedida})

NextAnalisis ==
    \/ \E cantidad \in 0..MaxCantidad : AnalizarIp(cantidad)
    \/ \E s \in Sondeos : Sondea(s)
    \/ HacerPingFin
    \/ AnalizarIpFin

SpecAnalisis == InitAnalisis /\ [][NextAnalisis]_vars

\* results of a probe: lost, or one of three round trip times in ms
ValoresMs == {SIN_RESPUESTA, 10, 20, 40}

\* VENTANA_MOS - 1 results: losses, then MaxVariados results of any value
CasiLlenas ==
    {[i \in 1..(VENTANA_MOS - 1) |->
         IF i <= VENTANA_MOS - 1 - MaxVariados THEN SIN_RESPUESTA
         ELSE cola[i - (VENTANA_MOS - 1 - MaxVariados)]] :
        cola \in [1..MaxVariados -> ValoresMs]}

\* the viewer has processed all results of a window but the last, which waits
\* in the queue
InitVentana ==
    /\ SaverInicial({10}) /\ LectorInicial /\ HiloInicial({TRUE})
    /\ ArranqueInicial({Conocida}, {TRUE}) /\ MosInicial({SinMedida})
    /\ \E resultados \in CasiLlenas : VisorEs(VisorCon(resultados))
    /\ btn_pause = FALSE
    /\ ultimo_ms \in ValoresMs
    /\ ping_queue = <<<<ahora, ultimo_ms>>>>
    /\ cambios = 0

NextVentana ==
    \/ CheckQueue

SpecVentana == InitVentana /\ [][NextVentana]_vars

\* the thread of the viewer, the viewer and the process they live in
InitHilo ==
    SaverInicial({10}) /\ LectorInicial /\ VisorInicial /\ HiloInicial(BOOLEAN)
    /\ ArranqueInicial({Conocida}, {TRUE}) /\ MosInicial({SinMedida})

NextHilo ==
    \/ HiloWhile
    \/ \E r \in RespuestasPing : HiloPing(r)
    \/ \E escritura \in Escrituras : HiloGuardar(escritura)
    \/ HiloGuardarFalla
    \/ HiloPut
    \/ HiloExcept
    \/ HiloFinally
    \/ CheckQueue
    \/ TogglePause
    \/ Clear
    \/ CloseEvent
    \/ SalirProceso

SpecHilo == InitHilo /\ [][NextHilo]_vars

\* starting to monitor one target, by grabar_ping or by the viewer, twice
InitArranque ==
    SaverInicial({10}) /\ LectorInicial /\ VisorInicial /\ HiloInicial({TRUE})
    /\ ArranqueInicial(Direcciones, {FALSE}) /\ MosInicial({SinMedida})

NextArranque ==
    \/ \E p \in Probers : GrabarPing(p)
    \/ \E p \in Probers, guardar \in BOOLEAN : VisorIndividualInit(p, guardar)
    \/ \E p \in Probers, ms \in TiemposMs : ProberIteracion(p, ms)
    \/ \E p \in Probers : ProberFin(p)

SpecArranque == InitArranque /\ [][NextArranque]_vars

\* the rows an earlier run may have left in datos.db, in arrival order:
\* <<timestamp, tiempo_ms>>, the first one older than a minute
FilasBase == <<<<-100, 20>>, <<0, 30>>, <<0, SIN_RESPUESTA>>, <<1, 10>>, <<1, 50>>,
              <<1, 20>>, <<2, 40>>>>
RELOJ_API == 4

Tramos == {t \in (1..(Len(FilasBase) + 1)) \X (0..Len(FilasBase)) : t[2] >= t[1] - 1}

TablasIniciales ==
    {InsertRows(<<>>, <<>>, SubSeq(FilasBase, t[1], t[2]), t[2] - t[1] + 1) : t \in Tramos}

\* time ranges and latency bounds a request may give
Fechas == {Ninguno, <<0>>, <<1>>}
FiltrosPings ==
    [from_date : {Ninguno, <<1>>}, to_date : Fechas, min_latency : {Ninguno, <<20>>},
     max_latency : {Ninguno, <<30>>}, only_failures : BOOLEAN]
FiltrosStats ==
    {[SinFiltros EXCEPT !.from_date = d, !.to_date = h] : d \in Fechas, h \in Fechas}

\* the query service, and one prober that may start and write meanwhile
InitApi ==
    /\ ArranqueInicial({Conocida}, BOOLEAN)
    /\ SaverSobre({10}, IF almacen THEN TablasIniciales ELSE {<<>>}, RELOJ_API)
    /\ LectorInicial /\ VisorInicial /\ HiloInicial({TRUE})
    /\ MosInicial({SinMedida})

NextApi ==
    \/ \E p \in {1} : GrabarPing(p)
    \/ \E p \in {1}, ms \in TiemposMs : ProberIteracion(p, ms)
    \/ \E limit \in {1, MaxLimit}, offset \in 0..1, filtros \in FiltrosPings :
          GetPingsSelect(limit, offset, filtros)
    \/ GetPingsCount
    \/ \E filtros \in FiltrosStats : GetStatsAgregados(filtros)
    \/ GetStatsLatencias
    \/ \E minutes \in {1, 2} : GetRecentPings(minutes)
    \/ ListIpsCount
    \/ ListIpsMinMax
    \/ GetPingsReturn

SpecApi == InitApi /\ [][NextApi]_vars

\* one client pages through get_pings while nothing is written
InitPaginas ==
    /\ ArranqueInicial({Conocida}, {TRUE})
    /\ SaverSobre({10}, TablasIniciales, RELOJ_API)
    /\ LectorInicial /\ VisorInicial /\ HiloInicial({TRUE})
    /\ MosInicial({SinMedida})

NextPaginas ==
    \/ \E limit \in {1, MaxLimit}, offset \in 0..1, filtros \in FiltrosPings :
          GetPingsSelect(limit, offset, filtros)
    \/ GetPingsCount
    \/ GetPingsSiguiente
    \/ GetPingsReturn

SpecPaginas == InitPaginas /\ [][NextPaginas]_vars

\* calcular_mos called again and again, each time with one argument larger
InitMos ==
    SaverInicial({10}) /\ LectorInicial /\ VisorInicial /\ HiloInicial({TRUE})
    /\ ArranqueInicial({Conocida}, {TRUE}) /\ MosInicial(Medidas)

NextMos ==
    \/ CalcularMos
    \/ \E valor \in LatenciasMos : Aumenta("latencia_promedio", valor)
    \/ \E valor \in JittersMos : Aumenta("jitter", valor)
    \/ \E valor \in PerdidasMos : Aumenta("perdida_paquetes", valor)

SpecMos == InitMos /\ [][NextMos]_vars

\* ------------------------------------------------------------------ claims
\* the samples appended and not covered by a committed flush
SinGuardar == SubSeq(appended, Len(flushed) + 1, Len(appended))

IdsCrecientes(tabla) == \A i \in 1..(Len(tabla) - 1) : tabla[i].id < tabla[i + 1].id

\* C1: after any sequence of agregar_ping, flush and close calls whose writes all
\* succeeded, the buffer holds fewer than batch_size samples and the committed
\* table followed by the buffer is exactly the sequence of samples appended:
\* none lost, none twice.
C1_BufferBelowBatchNothingLost ==
    (pc = "idle" /\ fallos = 0) =>
        /\ Len(buffer) < batch_size
        /\ Muestras(pings) \o buffer = appended
        /\ IdsCrecientes(pings)

\* an automatic flush has happened and a later sample waits in the buffer
C1_Witness ==
    pc = "idle" /\ fallos = 0 /\ Len(pings) >= 2 /\ Len(buffer) > 0

\* C2: a reader that reads the whole table, at any point between the writer's
\* steps, sees exactly the samples of the flushes committed before its read: no
\* part of a batch, no sample still waiting in the buffer.
C2_ReaderSeesCommittedBatchesOnly ==
    (rpc # "idle" /\ consulta.offset = 0 /\ Len(filas) < consulta.limit) =>
        Muestras(PorId(filas)) = visto.flushed

\* C3: in every reachable state, failed flushes included, the samples appended
\* and not yet durable are at most batch_size.
C3_UnflushedBoundedByBatch ==
    Len(appended) - Len(flushed) <= batch_size

\* C4: a failed write leaves the buffer as it was (the samples not yet durable),
\* and once the writer is back with an empty buffer every appended sample is in
\* the table exactly once.
C4_RetainedThenDurableOnce ==
    /\ (pc = "idle" /\ ~ultima.ok) => buffer = SinGuardar
    /\ (pc = "idle" /\ buffer = <<>>) => Muestras(pings) = appended

C6_CloseFlushesAndReleases ==
    (pc = "idle" /\ ultima = [op |-> "close", ok |-> TRUE]) =>
        (buffer = <<>> /\ Muestras(pings) = appended /\ ~conn_abierta)

\* C7: the committed table, read in id order, is a prefix of the samples
\* appended so far, with strictly increasing ids.
C7_TableIsPrefixOfAppended ==
    IsPrefix(Muestras(pings), appended) /\ IdsCrecientes(pings)

\* the response of a get_pings that ran with the writer at rest: exactly the
\* samples appended before it, newest timestamp first
TimestampDesc(s) == \A i \in 1..(Len(s) - 1) : s[i].timestamp >= s[i + 1].timestamp

RoundTrip ==
    /\ resp.total_results = Len(visto.appended)
    /\ resp.returned = Len(visto.appended)
    /\ Muestras(PorId(resp.pings)) = visto.appended
    /\ TimestampDesc(resp.pings)

SecuencialSinFiltros ==
    /\ rpc = "done"
    /\ resp.quieto
    /\ visto.huella[1] = "idle"
    /\ resp.offset = 0
    /\ resp.limit >= Len(visto.appended)

\* C8: N samples appended and flushed, then get_pings with no filter and
\* limit >= N, returns exactly those N samples, newest first, total_results = N.
C8_RoundTrip ==
    (SecuencialSinFiltros /\ visto.buffer = <<>>) => RoundTrip

\* C9: the window of the viewer never holds more than 50 entries, and it is
\* always the entries of the last min(k, 50) results processed since the last
\* clear, in arrival order: a result that arrives at a full window evicts
\* exactly the oldest entry.
RECURSIVE Entradas(_)
Entradas(resultados) ==
    IF resultados = <<>> THEN <<>>
    ELSE <<EntradaVentana(Head(resultados))>> \o Entradas(Tail(resultados))

C9_WindowIsLastFifty ==
    /\ Len(ventana_mos) <= VENTANA_MOS
    /\ Len(ventana_mos) = Min(Len(historial), VENTANA_MOS)
    /\ ventana_mos = Entradas(Ultimos(historial, VENTANA_MOS))

C9_Witness ==
    /\ Len(historial) > VENTANA_MOS
    /\ historial[1] = SIN_RESPUESTA
    /\ ventana_mos[1][2]

\* C10: mos_actual holds a score exactly when the last recomputation since
\* the last clear found a window of 50 entries with at least 5 answered among
\* the last 50 results processed; in every other state mos_actual is None and
\* calidad_actual names no quality class.
C10_SnapshotOnlyWithFiveValid ==
    /\ (mos_actual # Ninguno) <=>
           (recalculo.hecho /\ recalculo.n = VENTANA_MOS /\ recalculo.validas >= 5)
    /\ (mos_actual = Ninguno) => (calidad_actual \in {None, "Insuficientes datos"})
    /\ (recalculo.hecho /\ mos_actual = Ninguno) => (calidad_actual = "Insuficientes datos")

C10_Witness ==
    /\ mos_actual # Ninguno
    /\ recalculo.validas = 5
    /\ btn_pause

\* C11: a recomputation over a full window of 50 with exactly 4 answered
\* results gives the insufficient-data outcome, and one with exactly 5 answered
\* results gives a score between 1.0 and 5.0.
C11_ThresholdBoundary ==
    /\ (recalculo.hecho /\ recalculo.n = VENTANA_MOS /\ recalculo.validas = 4) =>
           (mos_actual = Ninguno /\ calidad_actual = "Insuficientes datos")
    /\ (recalculo.hecho /\ recalculo.n = VENTANA_MOS /\ recalculo.validas = 5) =>
           (/\ mos_actual # Ninguno
            /\ mos_actual[1] >= 10000
            /\ mos_actual[1] <= 50000)

\* a second recomputation found 4 answered results where the first found more
C11_Witness ==
    /\ recalculo.hecho
    /\ recalculo.validas = 4
    /\ mos_actual = Ninguno
    /\ r_factor_actual # Ninguno
    /\ Len(ventana_mos) = VENTANA_MOS

C13_LossPercentExact ==
    recalculo.hecho =>
        recalculo.perdida_porcentaje =
            DobleDeEntero((100 * (recalculo.n - recalculo.validas)) \div VENTANA_MOS)

\* C14: every iteration of the loop of PingThread writes exactly one row to
\* the store (when storing is on) and adds exactly one entry to the window of
\* the viewer: a tick that was queued has its row, there are as many rows as
\* ticks stored, and a check_queue that takes k results from the queue
\* processes k results, whatever pauses and clears happen in between.
C14_OneSamplePerTick ==
    [][/\ guardar_bd =>
            \A i \in 1..Len(iteraciones) :
                iteraciones[i].encolado => iteraciones[i].guardado
       /\ guardar_bd =>
            Len(bd) = Cardinality({i \in 1..Len(iteraciones) : iteraciones[i].guardado})
       /\ (/\ Len(ping_queue') < Len(ping_queue)
           /\ \A i \in 1..Len(ping_queue) : Len(ping_queue[i]) = 2) =>
              Len(historial') = Len(historial) + (Len(ping_queue) - Len(ping_queue'))
      ]_vars

\* C15: an exception of the probe primitive becomes a loss result (-1) of its
\* tick and the loop goes on: as long as the store has raised nothing, the loop
\* is left only after running was set to FALSE, and an iteration whose probe
\* raised ends up queued with -1.
C15_ProbeFailureBecomesLoss ==
    (\A i \in 1..Len(iteraciones) : iteraciones[i].fallo # "guardar") =>
        /\ (hilo \in {"except", "finally", "fin"}) => ~running
        /\ \A i \in 1..Len(iteraciones) :
               (iteraciones[i].fallo = "ping" /\ hilo \notin {"ping", "muerto"}) =>
                   (iteraciones[i].encolado /\ iteraciones[i].ms = SIN_RESPUESTA)

\* C16: every result the thread queues is the loss sentinel -1 or a latency
\* above the 1 ms threshold below which hacer_ping rejects an answer; an answer
\* at or below it, or one that is no latency, is queued as -1.
UMBRAL_MS == 1

C16_SentinelOrAboveThreshold ==
    \A i \in 1..Len(iteraciones) :
        iteraciones[i].encolado =>
            (iteraciones[i].ms = SIN_RESPUESTA \/ iteraciones[i].ms > UMBRAL_MS)

\* C17: an iteration sleeps the rest of the period after the time its work
\* (the probe and the storing of its result) took: the next iteration starts
\* exactly one period after it when the work took less than the period, and
\* right when the work ends otherwise.
C17_SleepsRemainderOfPeriod ==
    \A i \in 1..(Len(iteraciones) - 1) :
        iteraciones[i + 1].inicio - iteraciones[i].inicio =
            (IF iteraciones[i].trabajo < PERIODO_MS
             THEN PERIODO_MS
             ELSE iteraciones[i].trabajo)

\* C18: between two iterations, after a run of T ms, the number of results
\* the loop has queued is T / period, give or take one, probes that take up
\* to the timeout included.
Encolados == Cardinality({i \in 1..Len(iteraciones) : iteraciones[i].encolado})

C18_CadenceWithinOneTick ==
    (hilo = "while" /\ \A i \in 1..Len(iteraciones) : iteraciones[i].fallo = None) =>
        /\ Encolados * PERIODO_MS >= ahora - PERIODO_MS
        /\ Encolados * PERIODO_MS <= ahora + PERIODO_MS

\* C19: once stop() has been called and the thread has ended without an
\* exception, the iteration that was in progress was completed (its sample
\* stored, when storing is on, and queued) and the connection of the store is
\* no longer open.
C19_StopCompletesTickAndCloses ==
    (/\ paradas > 0
     /\ hilo \in {"fin", "muerto"}
     /\ \A i \in 1..Len(iteraciones) : iteraciones[i].fallo = None) =>
        /\ conn # "abierta"
        /\ \A i \in 1..Len(iteraciones) :
              /\ iteraciones[i].encolado
              /\ guardar_bd => iteraciones[i].guardado

\* C20: stop() is idempotent. Whenever it is called, on a running thread,
\* on one that was already stopped, twice in a row, or before the loop has
\* tested its flag for the first time, the flag ends up false, no error ends
\* the process, the thread is not moved, and the store (rows and connection)
\* and the state of the scorer are left as they were; on a thread already
\* stopped the flag itself does not change either.
C20_StopIsIdempotent ==
    [][(paradas' = paradas + 1) =>
          /\ running' = FALSE
          /\ ~running => running' = running
          /\ proceso' = proceso
          /\ hilo' = hilo
          /\ UNCHANGED <<bd, conn, guardar_bd, iteraciones>>
          /\ UNCHANGED <<storeVars, visorVars>>]_vars

\* stop() was called before the loop tested its flag, the thread ended
\* without a tick, and stop() was then called again on the stopped thread
C20_Witness ==
    /\ paradas >= 2
    /\ ~running
    /\ iteraciones = <<>>
    /\ hilo = "fin"
    /\ proceso = "vivo"
    /\ conn = "cerrada"

\* C21: a target's store has one writer: at no time are two probers in their
\* loop with a connection open on the same datos.db.
Escritores == {p \in Probers : probers[p].estado = "bucle" /\ probers[p].conn = "abierta"}

C21_OneWriterPerTarget == Cardinality(Escritores) <= 1

\* the pieces of a string between its dots
RECURSIVE Partes(_, _)
Partes(s, parte) ==
    IF s = <<>> THEN <<parte>>
    ELSE IF Head(s) = "." THEN <<parte>> \o Partes(Tail(s), <<>>)
    ELSE Partes(Tail(s), Append(parte, Head(s)))

Cifra(c) == CHOOSE n \in 0..9 : Digitos[n + 1] = c

RECURSIVE Decimal(_)
Decimal(t) == IF t = <<>> THEN 0 ELSE 10 * Decimal(SubSeq(t, 1, Len(t) - 1)) + Cifra(t[Len(t)])

\* a decimal octet: one to three digits, no leading zero, at most 255
EsOcteto(t) ==
    /\ Len(t) \in 1..3
    /\ \A k \in 1..Len(t) : t[k] \in Entre(0, 9)
    /\ Len(t) = 1 \/ t[1] # "0"
    /\ Decimal(t) <= 255

EsIPv4(s) ==
    LET partes == Partes(s, <<>>)
    IN  Len(partes) = 4 /\ \A k \in 1..4 : EsOcteto(partes[k])

\* C22: a start operation goes on exactly when the address is four decimal
\* octets in 0..255 joined by dots; for any other string it is rejected, and
\* then no store is created, no loop is entered and no probe is sent.
C22_MalformedAddressRejected ==
    /\ \A p \in Probers :
          probers[p].estado # "nuevo" =>
              (probers[p].estado = "rechazado" <=> ~EsIPv4(direccion))
    /\ ~EsIPv4(direccion) =>
          /\ ~almacen
          /\ escritos = <<>>
          /\ \A p \in Probers : probers[p].enviados = 0

\* C23: a store write that fails during an iteration does not end the loop:
\* unless stop() was called the thread stays in its loop, and once a later
\* iteration has written its sample the sample of the failed write is in the
\* store too.
C23_WriteFailureNotFatal ==
    \A i \in 1..Len(iteraciones) :
        iteraciones[i].fallo = "guardar" =>
            /\ running => hilo \notin {"except", "finally", "fin"}
            /\ (\E j \in (i + 1)..Len(iteraciones) : iteraciones[j].guardado) =>
                   \E k \in 1..Len(bd) : bd[k][2] = iteraciones[i].ms

\* what a get_pings response r says about the table tabla, for the request c
PaginaCorrecta(r, c, tabla) ==
    LET coinciden == Coinciden(tabla, c.filtros)
    IN  /\ \A k \in 1..Len(r.pings) : Coincide(r.pings[k], c.filtros)
        /\ TimestampDesc(r.pings)
        /\ \E empates \in {"asc", "desc"} :
              r.pings = LimitOffset(OrderByTimestampDesc(coinciden, empates),
                                    c.limit, c.offset)
        /\ r.total_results = Cardinality(coinciden)
        /\ r.returned = Min(c.limit, Max(0, r.total_results - c.offset))

\* C24: the response get_pings builds is a page of the stored rows: every row
\* of it passes the filters, it is rows offset..offset+limit-1 of the matching
\* rows newest first, returned = min(limit, max(0, total_results - offset)),
\* and total_results is the number of stored rows that match.
C24_PageOfMatchingRows ==
    [][(rpc = "count" /\ rpc' = "done") => PaginaCorrecta(resp', consulta, pings)]_vars

\* the latencies get_stats takes its percentiles from: the rows of tabla in
\* the time range of the request that are not losses, smallest first
LatenciasOrdenadas(tabla, c) ==
    Latencias(EnOrden(Respondidas(Coinciden(tabla, c.filtros)), PorLatencia, None))

\* what the percentiles of a get_stats response e say about the latencies l
PercentilesCorrectos(e, l) ==
    LET n == Len(l)
    IN  /\ n = 0 => e.median_ms = Ninguno /\ e.p95_ms = Ninguno /\ e.p99_ms = Ninguno
        /\ n >= 1 =>
              /\ \A p \in {50, 95, 99} : ((n * p) \div 100) + 1 \in 1..n
              /\ e.median_ms = <<l[((n * 50) \div 100) + 1]>>
              /\ e.p95_ms = <<l[((n * 95) \div 100) + 1]>>
              /\ e.p99_ms = <<l[((n * 99) \div 100) + 1]>>
        /\ n = 1 => e.median_ms = <<l[1]>> /\ e.p95_ms = <<l[1]>> /\ e.p99_ms = <<l[1]>>
        /\ l = <<10, 20, 30, 40, 50>> => e.median_ms = <<30>> /\ e.p95_ms = <<50>>

\* C25: the percentiles of a get_stats response are the elements at index
\* floor(n * p) of the n sorted latencies that are not losses: the index is in
\* range for every n >= 1, one latency is every percentile, 10..50 give
\* p50 = 30 and p95 = 50, and no latency gives None.
C25_PercentilesByFloorIndex ==
    [][(rpc = "latencias" /\ rpc' = "done") =>
          PercentilesCorrectos(resp'.stats[1], LatenciasOrdenadas(pings, consulta))]_vars

\* a response over the latencies 10, 20, 30, 40, 50 and one loss
C25_Witness ==
    /\ rpc = "done"
    /\ resp.op = "get_stats"
    /\ resp.status = 200
    /\ LatenciasOrdenadas(pings, consulta) = <<10, 20, 30, 40, 50>>
    /\ resp.stats[1].median_ms = <<30>>
    /\ resp.stats[1].p95_ms = <<50>>
    /\ resp.stats[1].p99_ms = <<50>>

\* no row of tabla has its timestamp in the time range of the request c
SinMuestrasEnRango(tabla, c) ==
    \A k \in 1..Len(tabla) :
        \/ c.filtros.from_date # Ninguno /\ tabla[k].timestamp < c.filtros.from_date[1]
        \/ c.filtros.to_date # Ninguno /\ tabla[k].timestamp > c.filtros.to_date[1]

\* C26: get_stats on a store with no sample, or with none in the time range
\* asked for, answers normally with total_pings = 0, packet_loss_percent = 0
\* and None for every latency statistic and percentile.
C26_EmptyStatsExplicit ==
    [][(rpc = "latencias" /\ rpc' = "done" /\ SinMuestrasEnRango(pings, consulta)) =>
          /\ resp'.status = 200
          /\ resp'.stats[1].total_pings = 0
          /\ resp'.stats[1].packet_loss_percent = 0
          /\ \A campo \in {"min_ms", "max_ms", "avg_ms", "median_ms", "p95_ms", "p99_ms"} :
                resp'.stats[1][campo] = Ninguno]_vars

\* a response for a time range that holds none of the stored samples
C26_Witness ==
    /\ rpc = "done"
    /\ resp.op = "get_stats"
    /\ resp.status = 200
    /\ Len(pings) >= 2
    /\ SinMuestrasEnRango(pings, consulta)
    /\ resp.stats[1].total_pings = 0
    /\ resp.stats[1].avg_ms = Ninguno

\* the query operations that take a target
ConsultasDeObjetivo == {"get_pings", "get_stats", "get_recent_pings"}

\* C27: get_pings, get_stats and get_recent_pings on a target that has no
\* store answer 404 in their first step, carry no rows and no statistics, and
\* leave the target without a store.
C27_UnknownTargetNotFound ==
    [][(rpc = "idle" /\ rpc' # "idle" /\ consulta'.op \in ConsultasDeObjetivo /\ ~almacen) =>
          /\ rpc' = "done"
          /\ resp'.op = consulta'.op
          /\ resp'.status = 404
          /\ resp'.pings = <<>>
          /\ resp'.total_results = 0
          /\ resp'.returned = 0
          /\ resp'.stats = Ninguno
          /\ ~almacen'
          /\ pings' = pings]_vars

\* a not-found answer on a target that still has no store
C27_Witness ==
    /\ rpc = "done"
    /\ resp.op = "get_stats"
    /\ resp.status = 404
    /\ ~almacen
    /\ pings = <<>>

\* the time range of the filters f ends before it starts
RangoInvertido(f) ==
    /\ f.from_date # Ninguno
    /\ f.to_date # Ninguno
    /\ f.from_date[1] > f.to_date[1]

\* C28: a get_pings or get_stats request on an existing store whose from_date
\* is later than its to_date is answered at once with a client-error status,
\* without running a statement against the store.
C28_InvertedRangeRejected ==
    [][(rpc = "idle" /\ rpc' # "idle" /\ consulta'.op \in {"get_pings", "get_stats"}
           /\ almacen /\ RangoInvertido(consulta'.filtros)) =>
          /\ rpc' = "done"
          /\ resp'.status \in 400..499
          /\ filas' = <<>>]_vars

\* C29: a step of list_ips, get_pings, get_stats or get_recent_pings changes
\* nothing but the request's own state: the stored and the uncommitted rows,
\* the saver's buffer, the existence of the store, the prober's state and the
\* viewer's rolling window and counters are as before, also when the prober
\* writes between the steps of a request.
C29_QueriesAreReadOnly ==
    [][(rpc' # rpc) => UNCHANGED <<storeVars, arranqueVars, visorVars, hiloVars, mosVars>>]_vars

\* a request answered after the prober committed a row in the middle of it
C29_Witness ==
    /\ rpc = "done"
    /\ resp.op \in {"get_stats", "list_ips"}
    /\ resp.status = 200
    /\ ~resp.quieto
    /\ escritos # <<>>

\* lo <= x <= hi
EnRango(x, lo, hi) == ~Menor(x, Flotante(lo)) /\ ~Menor(Flotante(hi), x)

\* C30: the R-factor calcular_mos returns lies in [0, 100] and the MOS in
\* [1, 5], and when one of latency, jitter and loss is larger than in the
\* call before and the other two are the same, neither R nor MOS is larger
\* than before.
C30_MosBoundedAndMonotone ==
    puntuacion # Ninguno =>
        /\ EnRango(puntuacion[1].R, 0, 100)
        /\ EnRango(puntuacion[1].MOS, 1, 5)
        /\ previa # Ninguno =>
              /\ ~Menor(previa[1].puntuacion.R, puntuacion[1].R)
              /\ ~Menor(previa[1].puntuacion.MOS, puntuacion[1].MOS)

\* C30 (amended): the R-factor calcular_mos returns lies in [0, 100] and the
\* MOS in [1, 5], and when one of latency, jitter and loss is larger than in
\* the call before and the other two are the same, R is not larger than before.
C30_BoundedAndRMonotone ==
    puntuacion # Ninguno =>
        /\ EnRango(puntuacion[1].R, 0, 100)
        /\ EnRango(puntuacion[1].MOS, 1, 5)
        /\ previa # Ninguno => ~Menor(previa[1].puntuacion.R, puntuacion[1].R)

\* a call with a larger argument whose R is smaller and whose MOS is larger
\* than those of the call before
C30_Witness ==
    /\ puntuacion # Ninguno
    /\ previa # Ninguno
    /\ Menor(puntuacion[1].R, previa[1].puntuacion.R)
    /\ Menor(previa[1].puntuacion.MOS, puntuacion[1].MOS)

\* C31: whenever the viewer holds a score, the label it holds with it is the
\* one the thresholds give that score: Excelente from 4.3, Buena from 4.0,
\* Aceptable from 3.6, Pobre from 3.1, Mala below (the score is in
\* ten-thousandths).
C31_LabelMatchesScore ==
    mos_actual # Ninguno =>
        LET mos == mos_actual[1]
        IN  /\ calidad_actual \in {"Excelente", "Buena", "Aceptable", "Pobre", "Mala"}
            /\ calidad_actual = "Excelente" <=> mos >= 43000
            /\ calidad_actual = "Buena" <=> (mos >= 40000 /\ mos < 43000)
            /\ calidad_actual = "Aceptable" <=> (mos >= 36000 /\ mos < 40000)
            /\ calidad_actual = "Pobre" <=> (mos >= 31000 /\ mos < 36000)
            /\ calidad_actual = "Mala" <=> mos < 31000

\* a recomputation has stored a score between 4.0 and 4.3 and its label
C31_Witness ==
    /\ recalculo.hecho
    /\ mos_actual # Ninguno
    /\ mos_actual[1] >= 40000
    /\ mos_actual[1] < 43000
    /\ calidad_actual = "Buena"

\* C32: while the last recomputation is one that found fewer than 5 valid
\* samples in the window, mos_actual, r_factor_actual and
\* latencia_efectiva_actual are all None and label_mos shows the
\* insufficient-data text.
C32_SnapshotNeverMixed ==
    (recalculo.hecho /\ recalculo.validas < 5) =>
        /\ mos_actual = Ninguno
        /\ r_factor_actual = Ninguno
        /\ latencia_efectiva_actual = Ninguno
        /\ label_mos = InsuficientesDatos

\* the latencies of the valid entries of a window, in window order
LatenciasDe(ventana) ==
    [i \in 1..Len(SelectSeq(ventana, LAMBDA e : e[2])) |->
        SelectSeq(ventana, LAMBDA e : e[2])[i][1]]

\* the sum of |lat[i+1] - lat[i]| over a sequence of latencies
RECURSIVE SumaSaltos(_)
SumaSaltos(lat) ==
    IF Len(lat) < 2 THEN 0
    ELSE (IF lat[2] >= lat[1] THEN lat[2] - lat[1] ELSE lat[1] - lat[2])
             + SumaSaltos(Tail(lat))

\* C33: a recomputation that stores a score has taken as jitter the mean of
\* the absolute differences between consecutive valid latencies of the
\* window, in window order with the losses left out, and as average latency
\* their mean (both in hundredths of a millisecond); the jitter is never
\* negative and is 0 when all the valid latencies are equal.
C33_JitterIsMeanAbsoluteDifference ==
    (recalculo.hecho /\ recalculo.enviados = paquetes_enviados /\ recalculo.validas >= 5) =>
        LET lat == LatenciasDe(ventana_mos)
        IN  /\ recalculo.jitter = <<(100 * SumaSaltos(lat)) \div (Len(lat) - 1)>>
            /\ recalculo.latencia_promedio = <<(100 * Sum(lat)) \div Len(lat)>>
            /\ recalculo.jitter[1] >= 0
            /\ (\A i \in 1..Len(lat) : lat[i] = lat[1]) => recalculo.jitter[1] = 0

\* the window holds 20, a loss, 10, 40, 40, 20 at its end: the jitter is
\* (10 + 30 + 0 + 20) / 4 = 15 ms and the average 26 ms
C33_Witness ==
    /\ recalculo.hecho
    /\ recalculo.enviados = paquetes_enviados
    /\ recalculo.validas = 5
    /\ SubSeq(historial, Len(historial) - 5, Len(historial)) = <<20, SIN_RESPUESTA, 10, 40, 40, 20>>
    /\ recalculo.jitter = <<1500>>
    /\ recalculo.latencia_promedio = <<2600>>

ResumenCorrecto(e, enRango) ==
    LET perdidas == {fila \in enRango : fila.tiempo_ms = SIN_RESPUESTA}
        conRespuesta == {fila \in enRango : fila.tiempo_ms # SIN_RESPUESTA}
        total == Cardinality(enRango)
        n == Cardinality(conRespuesta)
        suma == SumaMs(conRespuesta)
    IN  /\ e.total_pings = total
        /\ e.timeouts = <<Cardinality(perdidas)>>
        /\ e.successful = <<n>>
        /\ e.total_pings = e.successful[1] + e.timeouts[1]
        /\ total > 0 =>
              2 * Abs(e.packet_loss_percent * total - 10000 * Cardinality(perdidas)) <= total
        /\ n > 0 =>
              /\ e.min_ms # Ninguno /\ e.max_ms # Ninguno /\ e.avg_ms # Ninguno
              /\ \A fila \in conRespuesta : e.min_ms[1] <= fila.tiempo_ms
              /\ \E fila \in conRespuesta : e.min_ms[1] = fila.tiempo_ms
              /\ \A fila \in conRespuesta : e.max_ms[1] >= fila.tiempo_ms
              /\ \E fila \in conRespuesta : e.max_ms[1] = fila.tiempo_ms
              /\ 2 * Abs(e.avg_ms[1] * n - 100 * suma) <= n

\* C35: the dictionary get_stats returns for a time range, the writer having
\* been quiet meanwhile: total_pings is the number of stored rows in the
\* range (the total_results of get_pings for the same range) and is
\* successful + timeouts, timeouts is the number of rows with tiempo_ms = -1,
\* packet_loss_percent is 100 * timeouts / total_pings, and min_ms, max_ms
\* and avg_ms are defined whenever a row with an answer is in the range and
\* are the minimum, maximum and mean of those rows.
C35_StatsOverRange ==
    [][(rpc = "latencias" /\ rpc' = "done" /\ resp'.quieto) =>
          ResumenCorrecto(resp'.stats[1], Coinciden(pings, consulta.filtros))]_vars

\* the number of probes of hacer_ping so far whose raw outcome is in clase
RECURSIVE SondeosEn(_)
SondeosEn(clase) ==
    IF clase = {} THEN 0
    ELSE LET s == CHOOSE x \in clase : TRUE
         IN  sondeo.crudos[s] + SondeosEn(clase \ {s})

\* the outcomes that are an answer above 1 ms
SobreUnMilisegundo == {s \in Sondeos : ~s.lanza /\ s.rtt # Ninguno /\ s.rtt[1] > 1000}

C37_EveryQueuedItemDelivered ==
    [][(Len(ping_queue') < Len(ping_queue)) =>
          /\ ping_queue' = <<>>
          /\ proceso' = "vivo"
          /\ \A k \in 1..Len(ping_queue) : Len(ping_queue[k]) = 2
          /\ ~btn_pause =>
                historial' = historial \o [k \in 1..Len(ping_queue) |-> ping_queue[k][2]]]_vars

\* C38: after every step of the viewer the counters agree with what it keeps:
\* paquetes_enviados = paquetes_recibidos + paquetes_perdidos = len(historial),
\* len(latencias_validas) = paquetes_recibidos and len(ventana_mos) =
\* min(paquetes_enviados, 50); and a step that shortens historial, which is a
\* clear, leaves counters, lists, window, score, R factor, effective latency,
\* label and the text of label_mos as __init__ set them.
C38_CountersAgreeAndClearResets ==
    [][/\ paquetes_enviados' = paquetes_recibidos' + paquetes_perdidos'
       /\ paquetes_enviados' = Len(historial')
       /\ Len(latencias_validas') = paquetes_recibidos'
       /\ Len(ventana_mos') = (IF paquetes_enviados' < 50 THEN paquetes_enviados' ELSE 50)
       /\ Len(historial') < Len(historial) =>
             /\ historial' = <<>> /\ latencias_validas' = <<>> /\ ventana_mos' = <<>>
             /\ paquetes_enviados' = 0 /\ paquetes_recibidos' = 0
             /\ paquetes_perdidos' = 0
             /\ mos_actual' = Ninguno /\ r_factor_actual' = Ninguno
             /\ latencia_efectiva_actual' = Ninguno /\ calidad_actual' = None
             /\ label_mos' = "MOS: -- (esperando 50 muestras)"]_vars

\* more results than the window holds have been processed, some of them
\* lost, and a score is shown: the next clear has everything to reset
C38_Witness ==
    /\ paquetes_enviados > 50
    /\ Len(ventana_mos) = 50
    /\ paquetes_perdidos > 0
    /\ paquetes_recibidos > 0
    /\ mos_actual # Ninguno
    /\ proceso = "vivo"

====
